---- MODULE Spec2Model ----
(***************************************************************************)
(* Model of the document reconstruction pipeline of the PDF extractor:     *)
(*   pdf_extractor/markdown_converter.py  (MarkdownConverter)              *)
(*   pdf_extractor/processor.py           (PDFProcessor)                   *)
(*                                                                         *)
(* A string is a sequence of characters; a character is a one-element      *)
(* token such as "a" or "\n".  Characters outside ASCII are written by     *)
(* their code point ("u201c" is U+201C).                                   *)
(***************************************************************************)
EXTENDS Integers, Sequences, FiniteSets, TLC

VARIABLES
    pc,             \* which operation has run ("input", then the operation's name)
    cfg,            \* the configuration the converter / processor was built from
    text,           \* argument of _chunk_text
    chunks,         \* list returned by _chunk_text
    blocks,         \* argument of _sort_blocks_by_reading_order: the page's text blocks
    page_width,     \* argument of _sort_blocks_by_reading_order
    sorted,         \* list returned by _sort_blocks_by_reading_order(blocks)
    resorted,       \* list returned by _sort_blocks_by_reading_order(sorted)
    result,         \* the extraction result dictionary (pages and counters)
    page_heights,   \* argument of _detect_headers_footers
    markdown,       \* string returned by convert(result)
    last_chunks,    \* the converter's last_chunks attribute
    block_texts,    \* convert's list block_texts, one entry per page converted
    raw_table,      \* argument of _render_table
    rendered,       \* string returned by _render_table
    clean_text,     \* text returned by a cleaning stage (_dehyphenate_text, _normalize_whitespace)
    reclean_text,   \* text returned by the stage applied to its own output
    files,          \* the input files, path -> content
    cache,          \* the files of output/raw, hash -> JSON data
    outputs,        \* the files of output/markdown, stem -> Markdown
    calls,          \* number of process_pdf invocations, per content
    ncalls,         \* number of extract_pdf calls
    last_path,      \* argument of the last extract_pdf call
    returned,       \* value returned by the last extract_pdf call
    doc,            \* the PDF process_pdf is given
    page_idx,       \* number of pages the loop of process_pdf has completed
    detections,     \* number of invocations of _detect_headers_footers
    wpc,            \* per worker, its position in extract_pdf
    wdoc,           \* per worker, the result of process_pdf for its document
    wmarkdown,      \* per worker, the string convert returned to it
    wchunks         \* per worker, the list it read from converter.last_chunks

chunkVars == <<text, chunks>>
sortVars == <<blocks, page_width, sorted, resorted>>
docVars == <<result, page_heights>>
convertVars == <<markdown, last_chunks, block_texts>>
tableVars == <<raw_table, rendered>>
cleanVars == <<clean_text, reclean_text>>
extractVars == <<files, cache, outputs, calls, ncalls, last_path, returned>>
processVars == <<doc, page_idx, detections>>
workerVars == <<wpc, wdoc, wmarkdown, wchunks>>
vars == <<pc, cfg, chunkVars, sortVars, docVars, convertVars, tableVars, cleanVars, extractVars, processVars, workerVars>>

----------------------------------------------------------------------------
(* Bounds of the model *)

MaxParts == 3          \* a chunking input is built from at most MaxParts pieces
MaxChunkKb == 2        \* chunk_size_kb ranges over 0..MaxChunkKb
MaxBlocks == 4         \* a page given to the reading-order resolver has at most MaxBlocks blocks
MaxPages == 3          \* a document has at most MaxPages pages
MaxDocBlocks == 2      \* a document has at most MaxDocBlocks text blocks in all
MaxConvertPages == 2   \* a document given to convert has at most MaxConvertPages pages
MaxRows == 2           \* a table given to _render_table has at most MaxRows rows
MaxCols == 2           \* ... of at most MaxCols cells each
MaxHyphenParts == 5    \* a dehyphenation input is built from at most MaxHyphenParts pieces
MaxSpaceLen == 5       \* a whitespace-normalization input has at most MaxSpaceLen characters
MaxListBlocks == 2     \* a page of list items has at most MaxListBlocks fragments
MaxHeadingBlocks == 2  \* a page of headings has at most MaxHeadingBlocks fragments
MaxCalls == 3          \* extract_pdf is called at most MaxCalls times
MaxDocPages == 3       \* a PDF given to process_pdf has at most MaxDocPages pages
MaxBoxBlocks == 3      \* a page of fragments with and without box has at most MaxBoxBlocks fragments
MaxWorkers == 2        \* at most MaxWorkers documents are processed at the same time

----------------------------------------------------------------------------
(* Characters and strings *)

NL == "\n"
EMOJI == "u1f600"

\* len(ch.encode("utf-8"))
Utf8Len(ch) ==
    CASE ch \in {"u1f600"} -> 4
      [] ch \in {"u2018", "u2019", "u201c", "u201d", "u2013", "u2014", "u2026",
                 "u200b", "u2022", "ufb00", "ufb01", "ufb02", "ufb03", "ufb04",
                 "ufb05", "ufb06"} -> 3
      [] ch \in {"u00a0", "u00ad", "u00b7", "u00e9", "u0301"} -> 2
      [] OTHER -> 1

\* len(s.encode("utf-8"))
ByteSize(s) ==
    LET N(k) == Cardinality({i \in 1..Len(s) : Utf8Len(s[i]) = k})
    IN  N(1) + 2 * N(2) + 3 * N(3) + 4 * N(4)

Rep(ch, n) == [i \in 1..n |-> ch]

RECURSIVE Join(_)
\* "".join(parts)
Join(parts) ==
    IF parts = <<>> THEN <<>>
    ELSE IF Len(parts) = 1 THEN parts[1]
    ELSE LET half == Len(parts) \div 2
         IN  Join(SubSeq(parts, 1, half)) \o Join(SubSeq(parts, half + 1, Len(parts)))

Min(S) == CHOOSE x \in S : \A y \in S : x <= y
Max(S) == 0 - Min({0 - x : x \in S})

\* the characters of s at the positions in idx, in order
KeepAt(s, idx) == Join([i \in 1..Len(s) |-> IF i \in idx THEN << s[i] >> ELSE <<>>])

\* how many characters at the start / at the end of s belong to the class cls
LeadingCount(s, cls) == Min({i \in 1..Len(s) : s[i] \notin cls} \cup {Len(s) + 1}) - 1
TrailingCount(s, cls) == Len(s) - Max({i \in 1..Len(s) : s[i] \notin cls} \cup {0})

\* \d of the re module
Digits == {"0", "1", "2", "3", "4", "5", "6", "7", "8", "9"}
\* \s of the re module and str.split() / str.strip() whitespace
Spaces == {" ", "\t", "\n", "\r", "\f", "u00a0"}

\* s.strip()
Strip(s) ==
    IF \A i \in 1..Len(s) : s[i] \in Spaces THEN <<>>
    ELSE SubSeq(s, LeadingCount(s, Spaces) + 1, Len(s) - TrailingCount(s, Spaces))

UpperCase == <<"A", "B", "C", "D", "E", "F", "G", "H", "I", "J", "K", "L", "M",
               "N", "O", "P", "Q", "R", "S", "T", "U", "V", "W", "X", "Y", "Z">>
LowerCase == <<"a", "b", "c", "d", "e", "f", "g", "h", "i", "j", "k", "l", "m",
               "n", "o", "p", "q", "r", "s", "t", "u", "v", "w", "x", "y", "z">>
\* ch.lower()
LowerChar(ch) ==
    IF \E k \in 1..26 : UpperCase[k] = ch
    THEN LowerCase[CHOOSE k \in 1..26 : UpperCase[k] = ch] ELSE ch
Lower(s) == [i \in 1..Len(s) |-> LowerChar(s[i])]


\* para.split("\n"): the pieces between the newlines, always at least one
SplitNL(s) ==
    LET nl  == Join([i \in 1..Len(s) |-> IF s[i] = NL THEN << i >> ELSE <<>>])
        k   == Len(nl)
        P(j) == IF j = 0 THEN 0
                ELSE IF j = k + 1 THEN Len(s) + 1
                ELSE nl[j]
    IN  [j \in 1..(k + 1) |-> SubSeq(s, P(j - 1) + 1, P(j) - 1)]

RECURSIVE SplitParasFrom(_, _)
\* re.split(r"(\n\n+)", s) from position `from` on: text, separator, text, ...
SplitParasFrom(s, from) ==
    LET starts == {i \in from..(Len(s) - 1) :
                      /\ s[i] = NL /\ s[i + 1] = NL
                      /\ (i = from \/ s[i - 1] # NL)}
    IN  IF starts = {} THEN << SubSeq(s, from, Len(s)) >>
        ELSE LET b == Min(starts)
                 e == Max({j \in b..Len(s) : \A m \in b..j : s[m] = NL})
             IN  << SubSeq(s, from, b - 1), SubSeq(s, b, e) >>
                     \o SplitParasFrom(s, e + 1)

SplitParas(s) == SplitParasFrom(s, 1)

----------------------------------------------------------------------------
(* MarkdownConverter._chunk_text *)

\* the loop state: chunks emitted, the pieces of the open chunk, their size
ChunkState(cs, cur, size) == [chunks |-> cs, current_chunk |-> cur, current_size |-> size]

\* chunks.append("".join(current_chunk)); current_chunk = []; current_size = 0
Flush(st) == ChunkState(Append(st.chunks, Join(st.current_chunk)), <<>>, 0)

\* the line loop without its flush: lines pile up in the open chunk
ChunkLineStepNoFlush(st, line, limit) ==
    ChunkState(st.chunks, Append(st.current_chunk, Append(line, NL)),
               st.current_size + ByteSize(Append(line, NL)))

\* one iteration of the loop over the lines of an oversized paragraph
ChunkLineStep(st, line, limit) ==
    LET line_with_newline == Append(line, NL)
        line_size == ByteSize(line_with_newline)
        s1 == IF st.current_size + line_size > limit /\ st.current_chunk # <<>>
              THEN Flush(st) ELSE st
    IN  ChunkState(s1.chunks, Append(s1.current_chunk, line_with_newline),
                   s1.current_size + line_size)

RECURSIVE ChunkLines(_, _, _, _)
ChunkLines(st, lines, i, limit) ==
    IF i > Len(lines) THEN st
    ELSE ChunkLines(ChunkLineStep(st, lines[i], limit), lines, i + 1, limit)

\* one iteration of the loop over the paragraph / separator tokens
ChunkParaStep(st, para, limit) ==
    LET para_size == ByteSize(para)
    IN  IF para_size > limit
        THEN ChunkLines(IF st.current_chunk # <<>> THEN Flush(st) ELSE st,
                        SplitNL(para), 1, limit)
        ELSE IF st.current_size + para_size > limit /\ st.current_chunk # <<>>
        THEN ChunkState(Append(st.chunks, Join(st.current_chunk)), <<para>>, para_size)
        ELSE ChunkState(st.chunks, Append(st.current_chunk, para),
                        st.current_size + para_size)

RECURSIVE ChunkParas(_, _, _, _)
ChunkParas(st, paras, i, limit) ==
    IF i > Len(paras) THEN st
    ELSE ChunkParas(ChunkParaStep(st, paras[i], limit), paras, i + 1, limit)

\* _chunk_text with the guard `== 0` in place of `<= 0`
ChunkTextOnlyZero(s, chunk_size_kb) ==
    IF chunk_size_kb = 0 THEN << s >>
    ELSE LET limit == chunk_size_kb * 1024
             st == ChunkParas(ChunkState(<<>>, <<>>, 0), SplitParas(s), 1, limit)
         IN  IF st.current_chunk # <<>>
             THEN Append(st.chunks, Join(st.current_chunk))
             ELSE st.chunks

_chunk_text(s, chunk_size_kb) ==
    IF chunk_size_kb <= 0 THEN << s >>
    ELSE LET limit == chunk_size_kb * 1024
             st == ChunkParas(ChunkState(<<>>, <<>>, 0), SplitParas(s), 1, limit)
         IN  IF st.current_chunk # <<>>
             THEN Append(st.chunks, Join(st.current_chunk))
             ELSE st.chunks

----------------------------------------------------------------------------
(* MarkdownConverter._normalize_text *)

LIGATURE_MAP ==
    << << "ufb00", <<"f", "f">> >>, << "ufb01", <<"f", "i">> >>,
       << "ufb02", <<"f", "l">> >>, << "ufb03", <<"f", "f", "i">> >>,
       << "ufb04", <<"f", "f", "l">> >>, << "ufb05", <<"s", "t">> >>,
       << "ufb06", <<"s", "t">> >> >>

CHAR_REPLACEMENTS ==
    << << "u2018", <<"'">> >>, << "u2019", <<"'">> >>,
       << "u201c", <<"\"">> >>, << "u201d", <<"\"">> >>,
       << "u2013", <<"-">> >>, << "u2014", <<"-", "-">> >>,
       << "u2026", <<".", ".", ".">> >>, << "u00a0", <<" ">> >>,
       << "u00ad", <<>> >>, << "u200b", <<>> >>,
       << "u2022", <<"-">> >>, << "u00b7", <<"-">> >> >>

\* what the loop "for key, replacement in table.items(): text = text.replace(key,
\* replacement)" makes of the character ch: the replacement of the entry whose
\* key it is.  No replacement text of either table contains a key, so a
\* character is rewritten by at most one pass of the loop.
ReplaceChar(ch, table) ==
    LET hits == {k \in 1..Len(table) : table[k][1] = ch}
    IN  IF hits = {} THEN << ch >> ELSE table[Min(hits)][2]

\* the text after the loop
ReplaceEach(s, table) == Join([i \in 1..Len(s) |-> ReplaceChar(s[i], table)])

RECURSIVE ComposeFrom(_, _)
\* unicodedata.normalize("NFC", text) on the characters of the model:
\* "e" followed by the combining acute accent U+0301 composes to U+00E9
ComposeFrom(s, i) ==
    IF i > Len(s) THEN <<>>
    ELSE IF i < Len(s) /\ s[i] = "e" /\ s[i + 1] = "u0301"
         THEN << "u00e9" >> \o ComposeFrom(s, i + 2)
         ELSE << s[i] >> \o ComposeFrom(s, i + 1)
NFC(s) == ComposeFrom(s, 1)

_normalize_text(s, normalize_unicode, normalize_quotes) ==
    IF ~normalize_unicode THEN s
    ELSE LET expanded == ReplaceEach(NFC(s), LIGATURE_MAP)
         IN  IF normalize_quotes THEN ReplaceEach(expanded, CHAR_REPLACEMENTS)
             ELSE expanded

----------------------------------------------------------------------------
(* MarkdownConverter._dehyphenate_text *)

LowerAZ == { LowerCase[k] : k \in 1..26 }
\* \w of the re module, on the characters of the model
WordChars ==
    LowerAZ \cup { UpperCase[k] : k \in 1..26 } \cup Digits
        \cup {"_", "u00e9", "ufb00", "ufb01", "ufb02", "ufb03", "ufb04", "ufb05", "ufb06"}

RECURSIVE DehyphenateFrom(_, _)
\* re.sub(r"(\w)-\n(\s*)([a-z])", r"\1\3", text), scanning from position i
DehyphenateFrom(s, i) ==
    IF i > Len(s) THEN <<>>
    ELSE LET w == LeadingCount(SubSeq(s, i + 3, Len(s)), Spaces)
             matches == /\ i + 3 <= Len(s)
                        /\ s[i] \in WordChars /\ s[i + 1] = "-" /\ s[i + 2] = NL
                        /\ i + 3 + w <= Len(s)
                        /\ s[i + 3 + w] \in LowerAZ
         IN  IF matches
             THEN << s[i], s[i + 3 + w] >> \o DehyphenateFrom(s, i + 4 + w)
             ELSE << s[i] >> \o DehyphenateFrom(s, i + 1)

_dehyphenate_text(s) == DehyphenateFrom(s, 1)

----------------------------------------------------------------------------
(* MarkdownConverter._apply_formatting and _matches_any *)

\* page_text.splitlines(): the only line boundary among the characters of the
\* model is "\n"; no empty last line is reported
SplitLines(s) ==
    IF s = <<>> THEN <<>>
    ELSE IF s[Len(s)] = NL THEN SplitNL(SubSeq(s, 1, Len(s) - 1)) ELSE SplitNL(s)

\* line.rstrip()
RStrip(s) == SubSeq(s, 1, Len(s) - TrailingCount(s, Spaces))

\* the bullet characters of the list-marker pattern [••·]
Bullets == {"u2022", "u00b7"}

\* re.sub(r"^[••·]\s*", "- " or "", text.strip())
ListMarker(s, preserve_lists) ==
    LET t == Strip(s)
    IN  IF t # <<>> /\ t[1] \in Bullets
        THEN (IF preserve_lists THEN <<"-", " ">> ELSE <<>>)
                 \o SubSeq(t, 2 + LeadingCount(Tail(t), Spaces), Len(t))
        ELSE t

\* the length of the longest run of characters other than m that starts at from
RunNot(s, from, m) ==
    Min({j \in from..Len(s) : s[j] = m} \cup {Max({from, Len(s) + 1})}) - from

RECURSIVE StripDouble(_, _, _)
\* re.sub(r"\*\*([^*]+)\*\*", r"\1", text) for m = "*", and
\* re.sub(r"__([^_]+)__", r"\1", text) for m = "_", scanning from position i
StripDouble(s, m, i) ==
    IF i > Len(s) THEN <<>>
    ELSE LET r == RunNot(s, i + 2, m)
             matches == /\ i + 3 + r <= Len(s)
                        /\ s[i] = m /\ s[i + 1] = m /\ r >= 1
                        /\ s[i + 2 + r] = m /\ s[i + 3 + r] = m
         IN  IF matches
             THEN SubSeq(s, i + 2, i + 1 + r) \o StripDouble(s, m, i + 4 + r)
             ELSE << s[i] >> \o StripDouble(s, m, i + 1)

RECURSIVE StripSingleStar(_, _)
\* re.sub(r"(?<!\*)\*(?!\*)([^*]+)(?<!\*)\*(?!\*)", r"\1", text) from position i
StripSingleStar(s, i) ==
    IF i > Len(s) THEN <<>>
    ELSE LET r == RunNot(s, i + 1, "*")
             matches == /\ s[i] = "*" /\ (i = 1 \/ s[i - 1] # "*")
                        /\ r >= 1 /\ i + 1 + r <= Len(s)
                        /\ (i + 2 + r > Len(s) \/ s[i + 2 + r] # "*")
         IN  IF matches
             THEN SubSeq(s, i + 1, i + r) \o StripSingleStar(s, i + 2 + r)
             ELSE << s[i] >> \o StripSingleStar(s, i + 1)

RECURSIVE StripUnderscore(_, _)
\* re.sub(r"_(.+?)_", r"\1", text) from position i
StripUnderscore(s, i) ==
    IF i > Len(s) THEN <<>>
    ELSE LET closing == {j \in (i + 2)..Len(s) : s[j] = "_"}
         IN  IF s[i] = "_" /\ closing # {}
             THEN SubSeq(s, i + 1, Min(closing) - 1) \o StripUnderscore(s, Min(closing) + 1)
             ELSE << s[i] >> \o StripUnderscore(s, i + 1)

_apply_formatting(line, preserve_lists, preserve_bold, preserve_italic) ==
    LET listed == ListMarker(RStrip(line), preserve_lists)
        bold == IF preserve_bold THEN listed
                ELSE StripDouble(StripDouble(listed, "*", 1), "_", 1)
    IN  IF preserve_italic THEN bold
        ELSE StripUnderscore(StripSingleStar(bold, 1), 1)

\* pat.search(text) for the two pattern shapes of the presets:
\*   [kind |-> "word_number", word |-> w]   is  ^w\s+\d+   (e.g. ^Chapter\s+\d+)
\*   [kind |-> "all_caps"]                  is  ^[A-Z][A-Z\s]+$
PatternSearch(pat, s) ==
    IF pat.kind = "word_number"
    THEN LET n == Len(pat.word)
             w == LeadingCount(SubSeq(s, n + 1, Len(s)), Spaces)
         IN  /\ Len(s) >= n /\ SubSeq(s, 1, n) = pat.word
             /\ w >= 1 /\ n + w + 1 <= Len(s) /\ s[n + w + 1] \in Digits
    ELSE LET caps == { UpperCase[k] : k \in 1..26 }
         IN  /\ Len(s) >= 2 /\ s[1] \in caps
             /\ \A i \in 2..Len(s) : s[i] \in caps \cup Spaces

\* any(pat.search(text) for pat in patterns)
_matches_any(s, patterns) == \E k \in 1..Len(patterns) : PatternSearch(patterns[k], s)

----------------------------------------------------------------------------
(* MarkdownConverter._normalize_whitespace *)

\* the class [ \t]
Blanks == {" ", "\t"}

\* ^ under re.MULTILINE: position i is at the start of the text or follows "\n"
AtLineStart(s, i) == i = 1 \/ s[i - 1] = NL

\* re.sub(r"(?<!^)[ \t]+", " ", text, flags=re.MULTILINE): a match starts at a
\* blank that is not at a line start and runs to the end of the blanks; a blank
\* at a line start is left as it is
CollapseBlanks(s) ==
    LET inMatch(i) == s[i] \in Blanks /\ ~AtLineStart(s, i)
        piece(i) == IF ~inMatch(i) THEN << s[i] >>
                    ELSE IF inMatch(i - 1) THEN <<>> ELSE << " " >>
    IN  Join([i \in 1..Len(s) |-> piece(i)])

\* text.replace("\r\n", "\n").replace("\r", "\n")
NormalizeLineEndings(s) ==
    LET piece(i) == IF s[i] # "\r" THEN << s[i] >>
                    ELSE IF i < Len(s) /\ s[i + 1] = NL THEN <<>> ELSE << NL >>
    IN  Join([i \in 1..Len(s) |-> piece(i)])

\* re.sub(r"\n{3,}", "\n\n", text)
CollapseNewlines(s) ==
    KeepAt(s, {i \in 1..Len(s) : ~(i >= 3 /\ s[i] = NL /\ s[i - 1] = NL /\ s[i - 2] = NL)})

\* re.sub(r"[ \t]+$", "", text, flags=re.MULTILINE): $ is the end of the text
\* or the position before a "\n"
StripLineEnds(s) ==
    LET next(i) == i + LeadingCount(SubSeq(s, i, Len(s)), Blanks)
        atEnd(i) == s[i] \in Blanks /\ (next(i) > Len(s) \/ s[next(i)] = NL)
    IN  KeepAt(s, {i \in 1..Len(s) : ~atEnd(i)})

_normalize_whitespace(s) ==
    StripLineEnds(CollapseNewlines(NormalizeLineEndings(CollapseBlanks(s))))

----------------------------------------------------------------------------
(* MarkdownConverter._render_table *)

\* a cell is a string; the cell None is the one-element sequence <<"None">>,
\* which is no string of the model ("None" is not a character)
None == << "None" >>

\* clean_cell(val)
clean_cell(val) ==
    IF val = None THEN <<>>
    ELSE LET piece(i) == IF val[i] = NL THEN << " " >>
                         ELSE IF val[i] = "|" THEN << "\\", "|" >>
                         ELSE << val[i] >>
         IN  Strip(Join([i \in 1..Len(val) |-> piece(i)]))

\* cell.ljust(width)
LJust(s, width) == IF Len(s) >= width THEN s ELSE s \o Rep(" ", width - Len(s))

RECURSIVE JoinWith(_, _)
\* sep.join(parts)
JoinWith(sep, parts) ==
    IF parts = <<>> THEN <<>>
    ELSE IF Len(parts) = 1 THEN parts[1]
    ELSE parts[1] \o sep \o JoinWith(sep, Tail(parts))

\* a column count taken from the first row alone
ColCountOfFirstRow(table) == Len(table[1])

\* col_count = max(len(row) for row in table)
ColCount(table) == Max({Len(table[r]) : r \in 1..Len(table)})

\* col_widths without the minimum width of 3
ColWidthsWithoutMinimum(table) ==
    [i \in 1..ColCount(table) |->
        Max({0} \cup {Len(clean_cell(table[r][i])) :
                        r \in {q \in 1..Len(table) : i <= Len(table[q])}})]

\* col_widths: at least 3, and the widest cleaned cell of the column
ColWidths(table) ==
    [i \in 1..ColCount(table) |->
        Max({3} \cup {Len(clean_cell(table[r][i])) :
                        r \in {q \in 1..Len(table) : i <= Len(table[q])}})]

\* "| " + " | ".join(cells, each ljust to its column, padded with "") + " |"
TableRow(row, widths) ==
    LET cells == [i \in 1..Len(widths) |->
                    IF i <= Len(row) THEN clean_cell(row[i]) ELSE <<>>]
    IN  <<"|", " ">>
            \o JoinWith(<<" ", "|", " ">>, [i \in 1..Len(widths) |-> LJust(cells[i], widths[i])])
            \o <<" ", "|">>

\* the separator row
TableSeparator(widths) ==
    <<"|", " ">>
        \o JoinWith(<<" ", "|", " ">>, [i \in 1..Len(widths) |-> Rep("-", widths[i])])
        \o <<" ", "|">>

_render_table(table) ==
    IF table = <<>> \/ table[1] = <<>> THEN <<>>
    ELSE LET widths == ColWidths(table)
         IN  JoinWith(<< NL >>,
                 << TableRow(table[1], widths), TableSeparator(widths) >>
                     \o [r \in 1..(Len(table) - 1) |-> TableRow(table[r + 1], widths)])

----------------------------------------------------------------------------
(* MarkdownConverter.convert *)

\* the block is left out: the two "continue" statements of the block loop
SkipOnlyHeaders(block, c) == c.remove_headers /\ block.is_header
SkipBlock(block, c) ==
    \/ c.remove_headers /\ block.is_header
    \/ c.remove_footers /\ block.is_footer

\* the list block_texts at the end of a page's block loop
BlockTexts(page, c) ==
    LET kept == {i \in 1..Len(page.text_blocks) : ~SkipBlock(page.text_blocks[i], c)}
        keptBlocks == KeepAt(page.text_blocks, kept)
    IN  [k \in 1..Len(keptBlocks) |->
            _normalize_text(keptBlocks[k].text, c.normalize_unicode, c.normalize_quotes)]

\* page_text: the collected texts joined by a blank line, dehyphenated if enabled
PageText(texts, c) ==
    LET joined == JoinWith(<< NL, NL >>, texts)
    IN  IF c.dehyphenate THEN _dehyphenate_text(joined) ELSE joined

\* the entry appended to lines when the section patterns are tested first
FormatLineSectionFirst(raw_line, c) ==
    LET line == _apply_formatting(raw_line, c.preserve_lists, c.preserve_bold,
                                  c.preserve_italic)
    IN  IF _matches_any(line, c.section_patterns)
        THEN <<"#", "#", " ">> \o Strip(line) \o << NL, NL >>
        ELSE IF _matches_any(line, c.chapter_patterns)
        THEN <<"#", " ">> \o Strip(line) \o << NL, NL >>
        ELSE line \o << NL >>

\* the entry appended to lines for one raw line of the page text
FormatLine(raw_line, c) ==
    LET line == _apply_formatting(raw_line, c.preserve_lists, c.preserve_bold,
                                  c.preserve_italic)
    IN  IF _matches_any(line, c.chapter_patterns)
        THEN <<"#", " ">> \o Strip(line) \o << NL, NL >>
        ELSE IF _matches_any(line, c.section_patterns)
        THEN <<"#", "#", " ">> \o Strip(line) \o << NL, NL >>
        ELSE line \o << NL >>

\* the entries appended to lines for the text of a page
TextLines(texts, c) ==
    LET raw == SplitLines(PageText(texts, c))
    IN  [k \in 1..Len(raw) |-> FormatLine(raw[k], c)]

\* the entries appended to lines for the tables of a page
TableLines(page, c) ==
    IF ~c.render_tables THEN <<>>
    ELSE Join([t \in 1..Len(page.tables) |->
                 IF page.tables[t] = <<>> THEN <<>>
                 ELSE << << NL >>, _render_table(page.tables[t]), << NL >> >>])

\* s.endswith("\n\n")
EndsBlank(s) == Len(s) >= 2 /\ s[Len(s)] = NL /\ s[Len(s) - 1] = NL

\* lines after the body of the page loop has run for one page
PageStep(lines, page, c) ==
    LET added == lines \o TextLines(BlockTexts(page, c), c) \o TableLines(page, c)
    IN  IF added # <<>> /\ ~EndsBlank(added[Len(added)])
        THEN Append(added, << NL >>) ELSE added

RECURSIVE PageLoop(_, _, _, _)
\* lines after the page loop has run for the pages k, k + 1, ...
PageLoop(lines, pages, k, c) ==
    IF k > Len(pages) THEN lines
    ELSE PageLoop(PageStep(lines, pages[k], c), pages, k + 1, c)

\* "".join(lines), whitespace normalization if enabled, then strip() + "\n"
FinishMarkdown(lines, c) ==
    LET joined == Join(lines)
        cleaned == IF c.normalize_whitespace THEN _normalize_whitespace(joined) ELSE joined
    IN  Strip(cleaned) \o << NL >>

\* convert(result): the returned markdown, the last_chunks it stores, and the
\* list block_texts of every page
convert(res, c) ==
    LET md == FinishMarkdown(PageLoop(<<>>, res.pages, 1, c), c)
    IN  [markdown |-> md,
         last_chunks |-> _chunk_text(md, c.chunk_size_kb),
         block_texts |-> [p \in 1..Len(res.pages) |-> BlockTexts(res.pages[p], c)]]

----------------------------------------------------------------------------
(* Exact arithmetic: a number is a fraction <<numerator, denominator>>,       *)
(* denominator > 0.  The source computes in binary floating point; every     *)
(* value below (sums and halves of integer coordinates) is exact there too.  *)

Abs(n) == IF n < 0 THEN -n ELSE n
RatLess(a, b) == a[1] * b[2] < b[1] * a[2]
RatEq(a, b) == a[1] * b[2] = b[1] * a[2]
RatAbsDiff(a, b) == << Abs(a[1] * b[2] - b[1] * a[2]), a[2] * b[2] >>
RatHalfSum(a, b) == << a[1] * b[2] + b[1] * a[2], 2 * a[2] * b[2] >>

\* a sort that puts elements of equal key in reverse input order
SortReversingTies(s, keys) ==
    LET rank(i) == Cardinality({j \in 1..Len(s) :
                        \/ RatLess(keys[j], keys[i])
                        \/ (~RatLess(keys[i], keys[j]) /\ j > i)}) + 1
    IN  [p \in 1..Len(s) |-> s[CHOOSE i \in 1..Len(s) : rank(i) = p]]

\* sorted(s, key=...) / list.sort(key=...): keys[i] is the key of s[i]; Python's
\* sort is stable
StableSortBy(s, keys) ==
    LET rank(i) == Cardinality({j \in 1..Len(s) :
                        \/ RatLess(keys[j], keys[i])
                        \/ (~RatLess(keys[i], keys[j]) /\ j < i)}) + 1
    IN  [p \in 1..Len(s) |-> s[CHOOSE i \in 1..Len(s) : rank(i) = p]]

----------------------------------------------------------------------------
(* PDFProcessor._sort_blocks_by_reading_order *)

\* x_positions: (b["bbox"][0] + b["bbox"][2]) / 2
XPosition(b) == << b.bbox[1] + b.bbox[3], 2 >>

\* a threshold computed from a page width of at least 1
ColumnThresholdOfWidthAtLeastOne(width, column_threshold) ==
    << (IF width < 1 THEN 1 ELSE width) * column_threshold[1], column_threshold[2] >>

\* threshold = page_width * self.column_threshold
ColumnThresholdOf(width, column_threshold) ==
    << width * column_threshold[1], column_threshold[2] >>

\* the blocks left in the order given, not sorted by midpoint
UnsortedByX(bs) == bs

\* sorted(zip(x_positions, blocks), key=lambda x: x[0])
SortedByX(bs) == StableSortBy(bs, [i \in 1..Len(bs) |-> XPosition(bs[i])])

\* the loop body without its else branch: every block joins the current column
ColumnStepNeverSplits(st, block, threshold) ==
    [columns |-> st.columns,
     current_col |-> Append(st.current_col, block),
     current_x |-> IF st.current_x = <<>> THEN XPosition(block)
                   ELSE RatHalfSum(st.current_x, XPosition(block))]

\* the loop body with `<=` in place of `<`: a fragment exactly the threshold away
\* from the reference joins the current column
ColumnStepInclusive(st, block, threshold) ==
    LET x_pos == XPosition(block)
    IN  IF st.current_x = <<>> \/ ~RatLess(threshold, RatAbsDiff(x_pos, st.current_x))
        THEN [columns |-> st.columns,
              current_col |-> Append(st.current_col, block),
              current_x |-> IF st.current_x = <<>> THEN x_pos
                            ELSE RatHalfSum(st.current_x, x_pos)]
        ELSE [columns |-> IF st.current_col # <<>>
                          THEN Append(st.columns, st.current_col) ELSE st.columns,
              current_col |-> << block >>,
              current_x |-> x_pos]

\* the loop body comparing against twice the threshold
ColumnStepWideTolerance(st, block, threshold) ==
    LET x_pos == XPosition(block)
    IN  IF st.current_x = <<>>
           \/ RatLess(RatAbsDiff(x_pos, st.current_x), << 2 * threshold[1], threshold[2] >>)
        THEN [columns |-> st.columns,
              current_col |-> Append(st.current_col, block),
              current_x |-> IF st.current_x = <<>> THEN x_pos
                            ELSE RatHalfSum(st.current_x, x_pos)]
        ELSE [columns |-> IF st.current_col # <<>>
                          THEN Append(st.columns, st.current_col) ELSE st.columns,
              current_col |-> << block >>,
              current_x |-> x_pos]

\* the body of the loop over sorted_by_x; current_x = <<>> stands for None
ColumnStep(st, block, threshold) ==
    LET x_pos == XPosition(block)
    IN  IF st.current_x = <<>> \/ RatLess(RatAbsDiff(x_pos, st.current_x), threshold)
        THEN [columns |-> st.columns,
              current_col |-> Append(st.current_col, block),
              current_x |-> IF st.current_x = <<>> THEN x_pos
                            ELSE RatHalfSum(st.current_x, x_pos)]
        ELSE [columns |-> IF st.current_col # <<>>
                          THEN Append(st.columns, st.current_col) ELSE st.columns,
              current_col |-> << block >>,
              current_x |-> x_pos]

RECURSIVE ColumnLoop(_, _, _, _)
ColumnLoop(st, sorted_by_x, i, threshold) ==
    IF i > Len(sorted_by_x) THEN st
    ELSE ColumnLoop(ColumnStep(st, sorted_by_x[i], threshold), sorted_by_x, i + 1, threshold)

\* the columns after the grouping loop and the final append of current_col
GroupColumns(bs, width, column_threshold) ==
    LET st == ColumnLoop([columns |-> <<>>, current_col |-> <<>>, current_x |-> <<>>],
                         SortedByX(bs), 1, ColumnThresholdOf(width, column_threshold))
    IN  IF st.current_col # <<>> THEN Append(st.columns, st.current_col) ELSE st.columns

\* the column left as grouped, not sorted by top edge
ColumnAsGrouped(col) == col

\* col.sort(key=lambda b: b["bbox"][1])
SortColumnByY(col) == StableSortBy(col, [i \in 1..Len(col) |-> << col[i].bbox[2], 1 >>])

\* b["bbox"] raises KeyError for a block without bounding box, once the list
\* is not empty
SortRaises(bs) == bs # <<>> /\ \E i \in 1..Len(bs) : bs[i].bbox = <<>>

_sort_blocks_by_reading_order(bs, width, column_threshold) ==
    IF bs = <<>> THEN bs
    ELSE LET columns == GroupColumns(bs, width, column_threshold)
         IN  Join([c \in 1..Len(columns) |-> SortColumnByY(columns[c])])

----------------------------------------------------------------------------
(* Helpers of process_pdf *)

\* the result dictionary process_pdf starts from
EmptyResult == [pages |-> <<>>, total_pages |-> 0, text_blocks |-> 0, tables |-> 0]

RECURSIVE SumSeq(_)
SumSeq(ns) == IF ns = <<>> THEN 0 ELSE Head(ns) + SumSeq(Tail(ns))

----------------------------------------------------------------------------
(* PDFProcessor._normalize_for_comparison *)

\* re.sub(r"^\d+\s*$", "", text)
DropStandaloneNumber(s) ==
    LET d == LeadingCount(s, Digits)
    IN  IF d >= 1 /\ (\A i \in (d + 1)..Len(s) : s[i] \in Spaces) THEN <<>> ELSE s

\* re.sub(r"^page\s*\d+", "", text, flags=re.IGNORECASE)
DropPagePrefix(s) ==
    IF Len(s) >= 5 /\ Lower(SubSeq(s, 1, 4)) = <<"p", "a", "g", "e">>
    THEN LET rest == SubSeq(s, 5, Len(s))
             w == LeadingCount(rest, Spaces)
             d == LeadingCount(SubSeq(rest, w + 1, Len(rest)), Digits)
         IN  IF d >= 1 THEN SubSeq(rest, w + d + 1, Len(rest)) ELSE s
    ELSE s

\* re.sub(r"\d+\s*$", "", text)
DropTrailingNumber(s) ==
    LET w == TrailingCount(s, Spaces)
        d == TrailingCount(SubSeq(s, 1, Len(s) - w), Digits)
    IN  IF d >= 1 THEN SubSeq(s, 1, Len(s) - w - d) ELSE s

\* " ".join(text.split())
CollapseSpaces(s) ==
    LET t == Strip(s)
        u == KeepAt(t, {i \in 1..Len(t) : t[i] \notin Spaces \/ t[i - 1] \notin Spaces})
    IN  [i \in 1..Len(u) |-> IF u[i] \in Spaces THEN " " ELSE u[i]]

_normalize_for_comparison(s) ==
    Lower(CollapseSpaces(DropTrailingNumber(DropPagePrefix(DropStandaloneNumber(s)))))

----------------------------------------------------------------------------
(* PDFProcessor._detect_headers_footers *)

\* page_heights[page_idx] if page_idx < len(page_heights) else 800
PageHeight(heights, p) == IF p <= Len(heights) THEN heights[p] ELSE 800

\* bbox = <<>> stands for a block without bounding box
\* bbox[1] < page_height * margin
InHeaderZone(block, page_height, margin) ==
    RatLess(<< block.bbox[2], 1 >>, << page_height * margin[1], margin[2] >>)
\* bbox[3] > page_height * (1 - margin)
InFooterZone(block, page_height, margin) ==
    RatLess(<< page_height * (margin[2] - margin[1]), margin[2] >>, << block.bbox[4], 1 >>)

\* the key the first pass counts the block under
NormalizedKey(block) == _normalize_for_comparison(Strip(block.text))

\* the positions <<page, block>> of the blocks the first pass does not skip
Candidates(pages) ==
    { pb \in UNION { {<<p, b>> : b \in 1..Len(pages[p].text_blocks)} : p \in 1..Len(pages) } :
        LET block == pages[pb[1]].text_blocks[pb[2]]
        IN  block.bbox # <<>> /\ Len(NormalizedKey(block)) >= 3 }

\* header_candidates[key] after the first pass (0 when the key is absent)
HeaderCount(pages, heights, margin, key) ==
    Cardinality({ pb \in Candidates(pages) :
        LET block == pages[pb[1]].text_blocks[pb[2]]
        IN  /\ InHeaderZone(block, PageHeight(heights, pb[1]), margin)
            /\ NormalizedKey(block) = key })

\* footer_candidates[key] after the first pass
FooterCount(pages, heights, margin, key) ==
    Cardinality({ pb \in Candidates(pages) :
        LET block == pages[pb[1]].text_blocks[pb[2]]
        IN  /\ InFooterZone(block, PageHeight(heights, pb[1]), margin)
            /\ NormalizedKey(block) = key })

\* v >= len(result["pages"]) * 0.5, for a key that was counted at all
IsRepeating(count, page_count) == count >= 1 /\ 2 * count >= page_count

\* a second pass that flips the flags of the blocks it finds, instead of setting them
MarkBlockFlipping(block, pages, heights, margin, p) ==
    IF block.bbox = <<>> THEN block
    ELSE LET key == NormalizedKey(block)
             h == PageHeight(heights, p)
         IN  [block EXCEPT
                !.is_header = @ # (/\ InHeaderZone(block, h, margin)
                                   /\ IsRepeating(HeaderCount(pages, heights, margin, key),
                                                  Len(pages))),
                !.is_footer = @ # (/\ InFooterZone(block, h, margin)
                                   /\ IsRepeating(FooterCount(pages, heights, margin, key),
                                                  Len(pages)))]

\* a second pass that assigns the flags, clearing the ones it does not set
MarkBlockAssigning(block, pages, heights, margin, p) ==
    IF block.bbox = <<>> THEN block
    ELSE LET key == NormalizedKey(block)
             h == PageHeight(heights, p)
         IN  [block EXCEPT
                !.is_header = (/\ InHeaderZone(block, h, margin)
                               /\ IsRepeating(HeaderCount(pages, heights, margin, key),
                                              Len(pages))),
                !.is_footer = (/\ InFooterZone(block, h, margin)
                               /\ IsRepeating(FooterCount(pages, heights, margin, key),
                                              Len(pages)))]

\* the second pass, for one block
MarkBlock(block, pages, heights, margin, p) ==
    IF block.bbox = <<>> THEN block
    ELSE LET key == NormalizedKey(block)
             h == PageHeight(heights, p)
         IN  [block EXCEPT
                !.is_header = @ \/ (/\ InHeaderZone(block, h, margin)
                                    /\ IsRepeating(HeaderCount(pages, heights, margin, key),
                                                   Len(pages))),
                !.is_footer = @ \/ (/\ InFooterZone(block, h, margin)
                                    /\ IsRepeating(FooterCount(pages, heights, margin, key),
                                                   Len(pages)))]

\* the detection without its page-count guard
DetectWithoutPageGuard(pages, heights, margin) ==
    [p \in 1..Len(pages) |->
        [pages[p] EXCEPT !.text_blocks =
            [b \in 1..Len(pages[p].text_blocks) |->
                MarkBlock(pages[p].text_blocks[b], pages, heights, margin, p)]]]

\* fewer pages than this and the detection returns at once
MinPagesForDetection == 3

\* the pages of result after _detect_headers_footers(result, page_heights)
_detect_headers_footers(pages, heights, margin) ==
    IF Len(pages) < MinPagesForDetection THEN pages
    ELSE [p \in 1..Len(pages) |->
            [pages[p] EXCEPT !.text_blocks =
                [b \in 1..Len(pages[p].text_blocks) |->
                    MarkBlock(pages[p].text_blocks[b], pages, heights, margin, p)]]]

----------------------------------------------------------------------------
(* PDFProcessor.process_pdf *)

\* A PDF as the parsing libraries present it: pages of a width and a height,
\* each with the blocks of page.get_text("blocks") (a text and a box) and the
\* tables of extract_tables; error names the call that raises, if any:
\*   <<0, "none">>    no call raises
\*   <<0, "open">>    fitz.open / pdfplumber.open raises
\*   <<k, "load">>    loading page k raises
\*   <<k, "tables">>  extract_tables of page k raises
NoError == <<0, "none">>

\* any(ind in text for ind in block_indicators)
Contains(s, sub) ==
    \E i \in 1..(Len(s) - Len(sub) + 1) : SubSeq(s, i, i + Len(sub) - 1) = sub
HasIndicator(s, block_indicators) ==
    \E k \in 1..Len(block_indicators) : Contains(s, block_indicators[k])

\* raw_blocks of a page: the stripped texts of at least min_text_length
\* characters, with their boxes. A block without is_header / is_footer reads as
\* not marked (block.get), which the record shows as FALSE.
RawBlocks(pdf_page, c) ==
    LET kept == {i \in 1..Len(pdf_page.blocks) :
                    Len(Strip(pdf_page.blocks[i].text)) >= c.min_text_length}
        raw == KeepAt(pdf_page.blocks, kept)
    IN  [i \in 1..Len(raw) |->
            [text |-> Strip(raw[i].text),
             has_indicator |-> HasIndicator(Strip(raw[i].text), c.block_indicators),
             bbox |-> raw[i].bbox, is_header |-> FALSE, is_footer |-> FALSE]]

\* the text blocks of page_info: raw_blocks, in reading order if sort_blocks
PageBlocks(pdf_page, c) ==
    IF c.sort_blocks
    THEN _sort_blocks_by_reading_order(RawBlocks(pdf_page, c), pdf_page.width,
                                       c.column_threshold)
    ELSE RawBlocks(pdf_page, c)

\* page_info of page idx + 1 = k
PageInfo(pdf_page, k, c) ==
    [page_number |-> k, text_blocks |-> PageBlocks(pdf_page, c), tables |-> pdf_page.tables]

\* the number of pages the loop appends before a call raises
PagesDone(pdf) ==
    IF pdf.error = NoError THEN Len(pdf.pages)
    ELSE IF pdf.error[2] = "open" THEN 0 ELSE pdf.error[1] - 1

\* process_pdf as one call: the result dictionary it returns
process_pdf(pdf, c) ==
    IF pdf.error[2] = "open" THEN EmptyResult
    ELSE LET n == PagesDone(pdf)
             infos == [k \in 1..n |-> PageInfo(pdf.pages[k], k, c)]
             heights == [k \in 1..n |-> pdf.pages[k].height]
             \* text_blocks is increased before extract_tables is called
             counted == IF pdf.error[2] = "tables" THEN n + 1 ELSE n
         IN  [pages |-> IF pdf.error = NoError /\ c.detect_headers_footers
                        THEN _detect_headers_footers(infos, heights, c.header_footer_margin)
                        ELSE infos,
              total_pages |-> Len(pdf.pages),
              text_blocks |-> SumSeq([k \in 1..counted |-> Len(PageBlocks(pdf.pages[k], c))]),
              tables |-> SumSeq([k \in 1..n |-> Len(pdf.pages[k].tables)])]

----------------------------------------------------------------------------
(* Inputs of the chunking specification *)

ChunkParts ==
    { <<NL>>, <<NL, NL>>, <<"a">>, Rep("a", 600), Rep("a", 1024), Rep(EMOJI, 150),
      Rep(EMOJI, 300) }

RECURSIVE TextsOf(_)
\* the texts made of exactly n parts
TextsOf(n) ==
    IF n = 0 THEN { <<>> }
    ELSE { t \o p : t \in TextsOf(n - 1), p \in ChunkParts }

\* the texts of at most n parts
ChunkTexts(n) == UNION { TextsOf(k) : k \in 0..n }

\* PDFProcessor.__init__ / MarkdownConverter.__init__ defaults; column_threshold
\* 0.3 is kept as the exact fraction <<3, 10>>
DefaultCfg ==
    [chunk_size_kb |-> 0, column_threshold |-> <<3, 10>>,
     header_footer_margin |-> <<1, 10>>,
     chapter_patterns |-> <<>>, section_patterns |-> <<>>,
     preserve_bold |-> FALSE, preserve_italic |-> FALSE, preserve_lists |-> FALSE,
     normalize_unicode |-> TRUE, normalize_whitespace |-> TRUE, dehyphenate |-> TRUE,
     normalize_quotes |-> TRUE, render_tables |-> TRUE,
     remove_headers |-> TRUE, remove_footers |-> TRUE,
     min_text_length |-> 0, block_indicators |-> <<>>, sort_blocks |-> TRUE,
     detect_headers_footers |-> TRUE]

ChunkIdle == text = <<>> /\ chunks = <<>>
SortIdle == blocks = <<>> /\ page_width = 0 /\ sorted = <<>> /\ resorted = <<>>
DocIdle == result = EmptyResult /\ page_heights = <<>>
\* last_chunks is [] after __init__; nothing has been converted
ConvertIdle == markdown = <<>> /\ last_chunks = <<>> /\ block_texts = <<>>
TableIdle == raw_table = <<>> /\ rendered = <<>>
CleanIdle == clean_text = <<>> /\ reclean_text = <<>>
ExtractIdle == files = <<>> /\ cache = <<>> /\ outputs = <<>> /\ calls = <<>> /\ ncalls = 0 /\ last_path = <<>> /\ returned = <<>>
ProcessIdle == doc = <<>> /\ page_idx = 0 /\ detections = 0
WorkerIdle == wpc = <<>> /\ wdoc = <<>> /\ wmarkdown = <<>> /\ wchunks = <<>>

----------------------------------------------------------------------------
(* Specification: _chunk_text applied to a text *)

ChunkInit ==
    /\ pc = "input"
    /\ text \in ChunkTexts(MaxParts)
    \* chunk_size_kb is taken from the configuration as it is: zero and negative
    \* values are accepted
    /\ \E kb \in -1..MaxChunkKb : cfg = [DefaultCfg EXCEPT !.chunk_size_kb = kb]
    /\ chunks = <<>>
    /\ SortIdle
    /\ DocIdle
    /\ ConvertIdle
    /\ TableIdle
    /\ CleanIdle
    /\ ExtractIdle
    /\ ProcessIdle
    /\ WorkerIdle

ChunkText ==
    /\ pc = "input"
    /\ chunks' = _chunk_text(text, cfg.chunk_size_kb)
    /\ pc' = "chunked"
    /\ UNCHANGED <<cfg, text, sortVars, docVars, convertVars, tableVars, cleanVars, extractVars, processVars, workerVars>>

ChunkNext == ChunkText

ChunkSpec == ChunkInit /\ [][ChunkNext]_vars

----------------------------------------------------------------------------
(* Specification: _sort_blocks_by_reading_order applied to a page's blocks, *)
(* and once more to its own output                                          *)

\* boxes 100 wide and 40 high with horizontal midpoints 100, 250, 330, 410 and
\* top edges 10, 100: on a page of width 500 (threshold 150) the first two
\* midpoints are exactly the threshold apart, and the last three are each
\* within the threshold of the one before
SortBoxes ==
    { << m - 50, y, m + 50, y + 40 >> : m \in {100, 250}, y \in {10, 100} }
        \cup { << 280, 10, 380, 50 >>, << 360, 100, 460, 140 >> }
SortWidths == {0, 500}

\* the n-th block of a page is labelled by its input position
BlockLists(n) ==
    { [i \in 1..n |-> [text |-> << ToString(i) >>, has_indicator |-> FALSE, bbox |-> f[i]]] :
        f \in [1..n -> SortBoxes] }

SortInit ==
    /\ pc = "input"
    /\ cfg = DefaultCfg
    /\ \E n \in 0..MaxBlocks : blocks \in BlockLists(n)
    /\ page_width \in SortWidths
    /\ sorted = <<>>
    /\ resorted = <<>>
    /\ ChunkIdle
    /\ DocIdle
    /\ ConvertIdle
    /\ TableIdle
    /\ CleanIdle
    /\ ExtractIdle
    /\ ProcessIdle
    /\ WorkerIdle

SortBlocks ==
    /\ pc = "input"
    /\ IF SortRaises(blocks)
       THEN pc' = "raised" /\ UNCHANGED sorted
       ELSE /\ sorted' = _sort_blocks_by_reading_order(blocks, page_width,
                                                       cfg.column_threshold)
            /\ pc' = "sorted"
    /\ UNCHANGED <<cfg, blocks, page_width, resorted, chunkVars, docVars, convertVars, tableVars, cleanVars, extractVars, processVars, workerVars>>

SortAgain ==
    /\ pc = "sorted"
    /\ resorted' = _sort_blocks_by_reading_order(sorted, page_width, cfg.column_threshold)
    /\ pc' = "resorted"
    /\ UNCHANGED <<cfg, blocks, page_width, sorted, chunkVars, docVars, convertVars, tableVars, cleanVars, extractVars, processVars, workerVars>>

SortNext == SortBlocks \/ SortAgain

SortSpec == SortInit /\ [][SortNext]_vars

----------------------------------------------------------------------------
(* Specification: a document is collected page by page, block by block, and *)
(* _detect_headers_footers is applied to it                                 *)

\* "Doc 1" and "Doc 2" share the comparison key "doc"; the key of "ab" is too short
DetectTexts == { <<"D", "o", "c", " ", "1">>, <<"D", "o", "c", " ", "2">>, <<"a", "b">> }
\* on a page 800 high: a box in the top margin, in the body, in the bottom margin
DetectBoxes == { <<50, 20, 200, 50>>, <<50, 200, 400, 400>>, <<50, 750, 200, 780>> }
DetectPageHeight == 800

NewBlock(t, box) ==
    [text |-> t, has_indicator |-> FALSE, bbox |-> box, is_header |-> FALSE, is_footer |-> FALSE]

BlockCount(pages) == SumSeq([p \in 1..Len(pages) |-> Len(pages[p].text_blocks)])

DetectInit ==
    /\ pc = "input"
    /\ cfg = DefaultCfg
    /\ result = EmptyResult
    /\ page_heights = <<>>
    /\ ChunkIdle
    /\ SortIdle
    /\ ConvertIdle
    /\ TableIdle
    /\ CleanIdle
    /\ ExtractIdle
    /\ ProcessIdle
    /\ WorkerIdle

\* a page is appended to the result, its height to page_heights
AddPage ==
    /\ pc = "input"
    /\ Len(result.pages) < MaxPages
    /\ result' = [result EXCEPT
            !.pages = Append(@, [page_number |-> Len(@) + 1, text_blocks |-> <<>>, tables |-> <<>>]),
            !.total_pages = @ + 1]
    /\ page_heights' = Append(page_heights, DetectPageHeight)
    /\ UNCHANGED <<pc, cfg, chunkVars, sortVars, convertVars, tableVars, cleanVars, extractVars, processVars, workerVars>>

\* a text block is appended to the last page
AddBlock ==
    /\ pc = "input"
    /\ result.pages # <<>>
    /\ BlockCount(result.pages) < MaxDocBlocks
    /\ \E t \in DetectTexts, box \in DetectBoxes :
          result' = [result EXCEPT
              !.pages[Len(result.pages)].text_blocks = Append(@, NewBlock(t, box)),
              !.text_blocks = @ + 1]
    /\ UNCHANGED <<pc, cfg, page_heights, chunkVars, sortVars, convertVars, tableVars, cleanVars, extractVars, processVars, workerVars>>

DetectHeadersFooters ==
    /\ pc = "input"
    /\ result' = [result EXCEPT
            !.pages = _detect_headers_footers(@, page_heights, cfg.header_footer_margin)]
    /\ pc' = "detected"
    /\ UNCHANGED <<cfg, page_heights, chunkVars, sortVars, convertVars, tableVars, cleanVars, extractVars, processVars, workerVars>>

\* _detect_headers_footers is run again on the result it has flagged, with the
\* same page heights and margin
DetectAgain ==
    /\ pc = "detected"
    /\ result' = [result EXCEPT
            !.pages = _detect_headers_footers(@, page_heights, cfg.header_footer_margin)]
    /\ pc' = "redetected"
    /\ UNCHANGED <<cfg, page_heights, chunkVars, sortVars, convertVars, tableVars, cleanVars, extractVars, processVars, workerVars>>

DetectNext == AddPage \/ AddBlock \/ DetectHeadersFooters \/ DetectAgain

DetectSpec == DetectInit /\ [][DetectNext]_vars

----------------------------------------------------------------------------
(* Specification: convert applied to an extraction result, under every      *)
(* setting of the text-cleaning and header/footer toggles                   *)

\* a fragment with curly quotes, a double blank and a word broken by a hyphen
BrokenWord == <<"u201c", "a", "u201d", " ", " ", "c", "o", "-">>
\* a fragment that continues the word, with a ligature and a combining accent
Continuation == <<"o", "p", " ", "ufb01", "e", "u0301">>

\* a block as detection leaves it: unmarked, marked as header or marked as footer
ConvertBlock(t, header, footer) ==
    [text |-> t, has_indicator |-> FALSE, bbox |-> <<50, 20, 200, 50>>,
     is_header |-> header, is_footer |-> footer]

\* a ragged table with a None cell
ConvertTable == << << <<"A">>, None >>, << <<"b", "|">> >> >>

\* the pages a document is made of: their text blocks and their tables
ConvertPages ==
    { [text_blocks |-> <<>>, tables |-> <<>>],
      [text_blocks |-> << ConvertBlock(Continuation, FALSE, TRUE) >>,
       tables |-> << ConvertTable >>] }
    \cup
    { [text_blocks |-> << ConvertBlock(BrokenWord, h, FALSE),
                          ConvertBlock(Continuation, FALSE, f) >>,
       tables |-> <<>>] : h \in BOOLEAN, f \in BOOLEAN }

\* the result of extracting the pages ps
ResultOf(ps) ==
    [pages |-> [k \in 1..Len(ps) |->
                 [page_number |-> k, text_blocks |-> ps[k].text_blocks,
                  tables |-> ps[k].tables]],
     total_pages |-> Len(ps),
     text_blocks |-> SumSeq([k \in 1..Len(ps) |-> Len(ps[k].text_blocks)]),
     tables |-> SumSeq([k \in 1..Len(ps) |-> Len(ps[k].tables)])]

ConvertResults ==
    { ResultOf(ps) : ps \in UNION { [1..n -> ConvertPages] : n \in 0..MaxConvertPages } }

ConvertCfgs ==
    { [DefaultCfg EXCEPT !.normalize_unicode = t[1], !.normalize_quotes = t[2],
                         !.dehyphenate = t[3], !.normalize_whitespace = t[4],
                         !.remove_headers = t[5], !.remove_footers = t[6]] :
        t \in [1..6 -> BOOLEAN] }

ConvertInit ==
    /\ pc = "input"
    /\ cfg \in ConvertCfgs
    /\ result \in ConvertResults
    /\ page_heights = <<>>
    /\ ConvertIdle
    /\ ChunkIdle
    /\ SortIdle
    /\ TableIdle
    /\ CleanIdle
    /\ ExtractIdle
    /\ ProcessIdle
    /\ WorkerIdle

Convert ==
    /\ pc = "input"
    /\ \E out \in {convert(result, cfg)} :
           /\ markdown' = out.markdown
           /\ last_chunks' = out.last_chunks
           /\ block_texts' = out.block_texts
    /\ pc' = "converted"
    /\ UNCHANGED <<cfg, chunkVars, sortVars, docVars, tableVars, cleanVars, extractVars, processVars, workerVars>>

ConvertNext == Convert

ConvertSpec == ConvertInit /\ [][ConvertNext]_vars

----------------------------------------------------------------------------
(* Specification: _render_table applied to a table *)

\* a null cell, a cell with a pipe, a cell with a line break that is wider than
\* the minimum column width
TableCells == { None, <<"b", "|">>, <<"a", NL, "b", "c">> }

\* rows of at most MaxCols cells (the empty row included), tables of at most
\* MaxRows rows (the empty table included)
TableRows == UNION { [1..n -> TableCells] : n \in 0..MaxCols }
Tables(rows) == UNION { [1..n -> TableRows] : n \in 0..rows }

TableInit ==
    /\ pc = "input"
    /\ cfg = DefaultCfg
    /\ raw_table \in Tables(MaxRows)
    /\ rendered = <<>>
    /\ ChunkIdle
    /\ SortIdle
    /\ DocIdle
    /\ ConvertIdle
    /\ CleanIdle
    /\ ExtractIdle
    /\ ProcessIdle
    /\ WorkerIdle

RenderTable ==
    /\ pc = "input"
    /\ rendered' = _render_table(raw_table)
    /\ pc' = "rendered"
    /\ UNCHANGED <<cfg, raw_table, chunkVars, sortVars, docVars, convertVars, cleanVars, extractVars, processVars, workerVars>>

TableNext == RenderTable

TableSpec == TableInit /\ [][TableNext]_vars

----------------------------------------------------------------------------
(* Specification: _dehyphenate_text applied to a text *)

\* the pieces a text is built from: a lowercase letter, an uppercase letter, a
\* hyphen at the end of a line, a hyphen, a line break, a space
HyphenParts == { <<"a">>, <<"A">>, <<"-", NL>>, <<"-">>, <<NL>>, <<" ">> }

RECURSIVE HyphenTextsOf(_)
HyphenTextsOf(n) ==
    IF n = 0 THEN { <<>> }
    ELSE { t \o p : t \in HyphenTextsOf(n - 1), p \in HyphenParts }

\* the texts of at most n parts
HyphenTexts(n) == UNION { HyphenTextsOf(k) : k \in 0..n }

DehyphenateInit ==
    /\ pc = "input"
    /\ cfg = DefaultCfg
    /\ text \in HyphenTexts(MaxHyphenParts)
    /\ chunks = <<>>
    /\ CleanIdle
    /\ SortIdle
    /\ DocIdle
    /\ ConvertIdle
    /\ TableIdle
    /\ ExtractIdle
    /\ ProcessIdle
    /\ WorkerIdle

Dehyphenate ==
    /\ pc = "input"
    /\ clean_text' = _dehyphenate_text(text)
    /\ pc' = "dehyphenated"
    /\ UNCHANGED <<cfg, chunkVars, reclean_text, sortVars, docVars, convertVars, tableVars, extractVars, processVars, workerVars>>

DehyphenateNext == Dehyphenate

DehyphenateSpec == DehyphenateInit /\ [][DehyphenateNext]_vars

----------------------------------------------------------------------------
(* Specification: _normalize_whitespace applied to a text, then to its own output *)

\* the characters of a text: a letter, a space, a tab, a line feed, a carriage return
SpaceChars == {"a", " ", "\t", NL, "\r"}

SpaceTexts(len) == UNION { [1..n -> SpaceChars] : n \in 0..len }

WhitespaceInit ==
    /\ pc = "input"
    /\ cfg = DefaultCfg
    /\ text \in SpaceTexts(MaxSpaceLen)
    /\ chunks = <<>>
    /\ CleanIdle
    /\ SortIdle
    /\ DocIdle
    /\ ConvertIdle
    /\ TableIdle
    /\ ExtractIdle
    /\ ProcessIdle
    /\ WorkerIdle

NormalizeWhitespace ==
    /\ pc = "input"
    /\ clean_text' = _normalize_whitespace(text)
    /\ pc' = "normalized"
    /\ UNCHANGED <<cfg, chunkVars, reclean_text, sortVars, docVars, convertVars, tableVars, extractVars, processVars, workerVars>>

NormalizeAgain ==
    /\ pc = "normalized"
    /\ reclean_text' = _normalize_whitespace(clean_text)
    /\ pc' = "renormalized"
    /\ UNCHANGED <<cfg, chunkVars, clean_text, sortVars, docVars, convertVars, tableVars, extractVars, processVars, workerVars>>

WhitespaceNext == NormalizeWhitespace \/ NormalizeAgain

WhitespaceSpec == WhitespaceInit /\ [][WhitespaceNext]_vars

----------------------------------------------------------------------------
(* Specification: convert applied to pages of list items, under every       *)
(* setting of the list toggle and of the text-cleaning toggles              *)

\* one-line fragments: an item after a bullet and a space, an item directly
\* after a middle dot, a line without a marker
ListTexts == { <<"u2022", " ", "x">>, <<"u00b7", "y">>, <<"z">> }

\* the documents: one page of 1..MaxListBlocks unmarked fragments
ListResults ==
    { ResultOf(<< [text_blocks |-> [k \in 1..n |-> ConvertBlock(ts[k], FALSE, FALSE)],
                   tables |-> <<>>] >>) :
        ts \in [1..MaxListBlocks -> ListTexts], n \in 1..MaxListBlocks }

ListCfgs ==
    { [DefaultCfg EXCEPT !.preserve_lists = t[1], !.normalize_unicode = t[2],
                         !.normalize_quotes = t[3], !.dehyphenate = t[4],
                         !.normalize_whitespace = t[5]] :
        t \in [1..5 -> BOOLEAN] }

ListInit ==
    /\ pc = "input"
    /\ cfg \in ListCfgs
    /\ result \in ListResults
    /\ page_heights = <<>>
    /\ ConvertIdle
    /\ ChunkIdle
    /\ SortIdle
    /\ TableIdle
    /\ CleanIdle
    /\ ExtractIdle
    /\ ProcessIdle
    /\ WorkerIdle

ListSpec == ListInit /\ [][ConvertNext]_vars

----------------------------------------------------------------------------
(* Specification: convert applied to pages of heading and body lines, under *)
(* every choice of chapter and section patterns                             *)

\* the patterns ^Chapter\s+\d+ and ^[A-Z][A-Z\s]+$ of the presets
ChapterNumber == [kind |-> "word_number", word |-> <<"C", "h", "a", "p", "t", "e", "r">>]
AllCaps == [kind |-> "all_caps"]

PatternLists == { <<>>, << ChapterNumber >>, << AllCaps >>, << ChapterNumber, AllCaps >> }

\* one-line fragments: a numbered chapter title, a title in capitals, a body line
HeadingTexts == { <<"C", "h", "a", "p", "t", "e", "r", " ", "1">>, <<"A", "B">>, <<"a", "b">> }

\* the documents: one page of 1..MaxHeadingBlocks unmarked fragments
HeadingResults ==
    { ResultOf(<< [text_blocks |-> [k \in 1..n |-> ConvertBlock(ts[k], FALSE, FALSE)],
                   tables |-> <<>>] >>) :
        ts \in [1..MaxHeadingBlocks -> HeadingTexts], n \in 1..MaxHeadingBlocks }

HeadingCfgs ==
    { [DefaultCfg EXCEPT !.chapter_patterns = ch, !.section_patterns = se,
                         !.normalize_whitespace = ws, !.dehyphenate = dh] :
        ch \in PatternLists, se \in PatternLists, ws \in BOOLEAN, dh \in BOOLEAN }

HeadingInit ==
    /\ pc = "input"
    /\ cfg \in HeadingCfgs
    /\ result \in HeadingResults
    /\ page_heights = <<>>
    /\ ConvertIdle
    /\ ChunkIdle
    /\ SortIdle
    /\ TableIdle
    /\ CleanIdle
    /\ ExtractIdle
    /\ ProcessIdle
    /\ WorkerIdle

HeadingSpec == HeadingInit /\ [][ConvertNext]_vars

----------------------------------------------------------------------------
(* Specification: PDFExtractor.extract_pdf called on the input files *)

\* the paths given to extract_pdf
Paths == { [stem |-> "a", suffix |-> ".pdf"], [stem |-> "b", suffix |-> ".pdf"],
           [stem |-> "c", suffix |-> ".txt"] }

\* the contents of a file: a PDF of one page with one block, a file the parsing
\* libraries cannot open
SamplePdf ==
    [pages |-> << [width |-> 500, height |-> 800,
                   blocks |-> << [text |-> <<" ", "a", "b">>, bbox |-> <<50, 200, 400, 400>>] >>,
                   tables |-> <<>>] >>,
     error |-> NoError]
BrokenPdf == [pages |-> <<>>, error |-> <<0, "open">>]
Pdfs == { SamplePdf, BrokenPdf }
\* no file at the path
Missing == [pages |-> <<>>, error |-> <<0, "no_file">>]
\* a file that does not begin with the %PDF header
FakePdf == [pages |-> <<>>, error |-> <<0, "no_header">>]

\* what may happen, in a call that processes the file, to the files it writes:
\* nothing; the cache file cannot be created; the cache file is created but the
\* write breaks off; the Markdown file cannot be written
Outcomes == { "ok", "cache_unwritable", "cache_torn", "output_unwritable" }

\* validate_pdf: the path exists, has the suffix .pdf and the file begins with
\* the %PDF header
validate_pdf(path) == files[path] \notin {Missing, FakePdf} /\ path.suffix = ".pdf"

\* get_file_hash: the SHA-256 digest of the content, one digest per content
get_file_hash(path) == IF files[path] = SamplePdf THEN "5a3f" ELSE "c1d2"

\* a cache keyed by the name of the file
CachePathByStem(path) == path.stem

\* cache_path = output/raw/<file_hash>.json
CachePath(path) == get_file_hash(path)

\* save_cache writes the JSON text of the data; load_cache reads it back. A
\* file whose write broke off holds no complete JSON text.
CacheEntry(data) == [complete |-> TRUE, json |-> data]
TornEntry == [complete |-> FALSE, json |-> <<>>]
\* extract_pdf returns None; extract_pdf raises; extract_pdf has not been called
ReturnedNone == [none |-> TRUE]
Raised == [raised |-> TRUE]
NotCalled == [stem |-> "", suffix |-> ""]
load_cache(entry) == IF entry.complete THEN entry.json ELSE Raised

ExtractInit ==
    /\ pc = "input"
    /\ cfg = DefaultCfg
    /\ files \in [Paths -> Pdfs \cup {Missing, FakePdf}]
    /\ cache = <<>>
    /\ outputs = <<>>
    /\ calls = [c \in Pdfs |-> 0]
    /\ ncalls = 0
    /\ last_path = NotCalled
    /\ returned = ReturnedNone
    /\ ChunkIdle
    /\ SortIdle
    /\ DocIdle
    /\ ConvertIdle
    /\ TableIdle
    /\ CleanIdle
    /\ ProcessIdle
    /\ WorkerIdle

ExtractPdf(path, outcome) ==
    /\ ncalls < MaxCalls
    /\ ncalls' = ncalls + 1
    /\ last_path' = path
    /\ pc' = "extracted"
    /\ IF ~validate_pdf(path)
       THEN /\ returned' = ReturnedNone
            /\ UNCHANGED <<cache, outputs, calls, convertVars>>
       ELSE IF CachePath(path) \in DOMAIN cache
       THEN /\ returned' = load_cache(cache[CachePath(path)])
            /\ UNCHANGED <<cache, outputs, calls, convertVars>>
       ELSE \E res \in {process_pdf(files[path], cfg)} : \E out \in {convert(res, cfg)} :
            LET saved == outcome \in {"ok", "output_unwritable"}
                converted == saved
            IN  /\ calls' = [calls EXCEPT ![files[path]] = @ + 1]
                /\ cache' = IF saved THEN (CachePath(path) :> CacheEntry(res)) @@ cache
                            ELSE IF outcome = "cache_torn"
                            THEN (CachePath(path) :> TornEntry) @@ cache
                            ELSE cache
                /\ IF converted
                   THEN /\ markdown' = out.markdown
                        /\ last_chunks' = out.last_chunks
                        /\ block_texts' = out.block_texts
                   ELSE UNCHANGED convertVars
                /\ outputs' = IF outcome = "ok" THEN (path.stem :> out.markdown) @@ outputs
                              ELSE outputs
                /\ returned' = IF outcome = "ok" THEN res ELSE ReturnedNone
    /\ UNCHANGED <<cfg, files, chunkVars, sortVars, docVars, tableVars, cleanVars, processVars, workerVars>>

ExtractNext == \E path \in Paths, outcome \in Outcomes : ExtractPdf(path, outcome)

ExtractSpec == ExtractInit /\ [][ExtractNext]_vars

----------------------------------------------------------------------------
(* Specification: PDFProcessor.process_pdf, page by page *)

\* the pages of a document: a page with a running title in the top margin and
\* a body block (given bottom-up), a page with a body block only
TitledPage ==
    [width |-> 500, height |-> DetectPageHeight,
     blocks |-> << [text |-> <<"a", "b">>, bbox |-> <<50, 200, 400, 400>>],
                   [text |-> <<"D", "o", "c", " ", "1">>, bbox |-> <<50, 20, 200, 50>>] >>,
     tables |-> << << << <<"A">> >> >> >>]
BodyPage ==
    [width |-> 500, height |-> DetectPageHeight,
     blocks |-> << [text |-> <<"a", "b">>, bbox |-> <<50, 200, 400, 400>>] >>,
     tables |-> <<>>]

\* the calls that may raise in a document of n pages
ErrorsOf(n) ==
    {NoError, <<0, "open">>} \cup { <<k, at>> : k \in 1..n, at \in {"load", "tables"} }

ProcessDocs ==
    UNION { { [pages |-> ps, error |-> e] : ps \in [1..n -> {TitledPage, BodyPage}],
                                            e \in ErrorsOf(n) } : n \in 0..MaxDocPages }

ProcessCfgs ==
    { [DefaultCfg EXCEPT !.detect_headers_footers = dt, !.sort_blocks = so] :
        dt \in BOOLEAN, so \in BOOLEAN }

ProcessInit ==
    /\ pc = "input"
    /\ cfg \in ProcessCfgs
    /\ doc \in ProcessDocs
    /\ page_idx = 0
    /\ detections = 0
    /\ result = EmptyResult
    /\ page_heights = <<>>
    /\ ChunkIdle
    /\ SortIdle
    /\ ConvertIdle
    /\ TableIdle
    /\ CleanIdle
    /\ ExtractIdle
    /\ WorkerIdle

\* fitz.open and pdfplumber.open; total_pages is set before the loop
OpenPdf ==
    /\ pc = "input"
    /\ IF doc.error[2] = "open"
       THEN pc' = "returned" /\ UNCHANGED result
       ELSE pc' = "pages" /\ result' = [result EXCEPT !.total_pages = Len(doc.pages)]
    /\ UNCHANGED <<cfg, page_heights, doc, page_idx, detections, chunkVars, sortVars,
                   convertVars, tableVars, cleanVars, extractVars, workerVars>>

\* one round of a loop that runs the detection after each page it appends
ProcessPageDetecting ==
    /\ pc = "pages"
    /\ page_idx < Len(doc.pages)
    /\ LET k == page_idx + 1
           info == PageInfo(doc.pages[k], k, cfg)
           heights == Append(page_heights, doc.pages[k].height)
       IN  /\ pc' = "pages"
           /\ page_heights' = heights
           /\ result' = [result EXCEPT
                  !.pages = IF cfg.detect_headers_footers
                            THEN _detect_headers_footers(Append(@, info), heights,
                                                         cfg.header_footer_margin)
                            ELSE Append(@, info),
                  !.text_blocks = @ + Len(info.text_blocks),
                  !.tables = @ + Len(info.tables)]
           /\ detections' = IF cfg.detect_headers_footers THEN detections + 1 ELSE detections
           /\ page_idx' = k
    /\ UNCHANGED <<cfg, doc, chunkVars, sortVars, convertVars, tableVars, cleanVars,
                   extractVars, workerVars>>

\* one round of the loop over the pages; a call that raises ends process_pdf,
\* which returns what has been collected
ProcessPage ==
    /\ pc = "pages"
    /\ page_idx < Len(doc.pages)
    /\ LET k == page_idx + 1
           info == PageInfo(doc.pages[k], k, cfg)
       IN  IF doc.error = <<k, "load">>
           THEN pc' = "returned" /\ UNCHANGED <<result, page_heights, page_idx>>
           ELSE IF doc.error = <<k, "tables">>
           THEN /\ pc' = "returned"
                /\ page_heights' = Append(page_heights, doc.pages[k].height)
                /\ result' = [result EXCEPT !.text_blocks = @ + Len(info.text_blocks)]
                /\ UNCHANGED page_idx
           ELSE /\ pc' = "pages"
                /\ page_heights' = Append(page_heights, doc.pages[k].height)
                /\ result' = [result EXCEPT !.pages = Append(@, info),
                                            !.text_blocks = @ + Len(info.text_blocks),
                                            !.tables = @ + Len(info.tables)]
                /\ page_idx' = k
    /\ UNCHANGED <<cfg, doc, detections, chunkVars, sortVars, convertVars, tableVars,
                   cleanVars, extractVars, workerVars>>

\* after the loop: the detection, if enabled, then the return
FinishPages ==
    /\ pc = "pages"
    /\ page_idx = Len(doc.pages)
    /\ IF cfg.detect_headers_footers
       THEN /\ result' = [result EXCEPT !.pages =
                             _detect_headers_footers(@, page_heights, cfg.header_footer_margin)]
            /\ detections' = detections + 1
       ELSE UNCHANGED <<result, detections>>
    /\ pc' = "returned"
    /\ UNCHANGED <<cfg, page_heights, doc, page_idx, chunkVars, sortVars, convertVars,
                   tableVars, cleanVars, extractVars, workerVars>>

ProcessNext == OpenPdf \/ ProcessPage \/ FinishPages

ProcessSpec == ProcessInit /\ [][ProcessNext]_vars

----------------------------------------------------------------------------
(* Specification: reading order and header/footer detection on pages of     *)
(* which some fragments have no bounding box                                *)

\* the fragments of a page: a running title in the top margin, a body block, a
\* page number line in the bottom margin, a running title without bounding box,
\* a two-letter mark in the top margin, a body block that carries is_header
\* from an earlier pass
BoxBlocks ==
    { NewBlock(<<"D", "o", "c", " ", "1">>, <<50, 20, 200, 50>>),
      NewBlock(<<"a", "b">>, <<300, 200, 400, 400>>),
      NewBlock(<<"e", "n", "d">>, <<50, 750, 200, 780>>),
      NewBlock(<<"D", "o", "c", " ", "1">>, <<>>),
      NewBlock(<<"a", "b">>, <<300, 20, 400, 50>>),
      [NewBlock(<<"D", "o", "c", " ", "1">>, <<300, 200, 400, 400>>) EXCEPT !.is_header = TRUE] }

BoxPages == UNION { [1..n -> BoxBlocks] : n \in 1..MaxBoxBlocks }

\* the page is given to _sort_blocks_by_reading_order; a document of three
\* such pages is given to _detect_headers_footers
BoxInit ==
    /\ pc = "input"
    /\ cfg = DefaultCfg
    /\ blocks \in BoxPages
    /\ page_width = 500
    /\ sorted = <<>>
    /\ resorted = <<>>
    /\ result = ResultOf([k \in 1..MinPagesForDetection |->
                             [text_blocks |-> blocks, tables |-> <<>>]])
    /\ page_heights = [k \in 1..MinPagesForDetection |-> DetectPageHeight]
    /\ ChunkIdle
    /\ ConvertIdle
    /\ TableIdle
    /\ CleanIdle
    /\ ExtractIdle
    /\ ProcessIdle
    /\ WorkerIdle

BoxNext == SortBlocks \/ DetectHeadersFooters \/ DetectAgain

BoxSpec == BoxInit /\ [][BoxNext]_vars

----------------------------------------------------------------------------
(* Specification: several documents processed at the same time by one       *)
(* extractor, whose MarkdownConverter they share                            *)

Workers == 1..MaxWorkers

\* the texts of the documents: one page with one fragment each
WorkerTexts == { <<"a">>, <<"b">>, <<"c">>, <<"d">> }
WorkerDoc(t) ==
    ResultOf(<< [text_blocks |-> << ConvertBlock(t, FALSE, FALSE) >>, tables |-> <<>>] >>)

WorkerInit ==
    /\ pc = "input"
    /\ cfg = DefaultCfg
    /\ wpc = [w \in Workers |-> "processed"]
    /\ \E ts \in [Workers -> WorkerTexts] :
          /\ \A v, w \in Workers : v # w => ts[v] # ts[w]
          /\ wdoc = [w \in Workers |-> WorkerDoc(ts[w])]
    /\ wmarkdown = [w \in Workers |-> <<>>]
    /\ wchunks = [w \in Workers |-> <<>>]
    /\ ChunkIdle
    /\ SortIdle
    /\ DocIdle
    /\ ConvertIdle
    /\ TableIdle
    /\ CleanIdle
    /\ ExtractIdle
    /\ ProcessIdle

\* markdown = self.converter.convert(result): the Markdown is returned to the
\* caller, the chunks are stored in the attribute last_chunks of the converter
WorkerConvert(w) ==
    /\ wpc[w] = "processed"
    /\ \E out \in {convert(wdoc[w], cfg)} :
           /\ wmarkdown' = [wmarkdown EXCEPT ![w] = out.markdown]
           /\ last_chunks' = out.last_chunks
    /\ wpc' = [wpc EXCEPT ![w] = "converted"]
    /\ UNCHANGED <<pc, cfg, markdown, block_texts, wdoc, wchunks, chunkVars, sortVars,
                   docVars, tableVars, cleanVars, extractVars, processVars>>

\* the caller reads converter.last_chunks
WorkerReadChunks(w) ==
    /\ wpc[w] = "converted"
    /\ wchunks' = [wchunks EXCEPT ![w] = last_chunks]
    /\ wpc' = [wpc EXCEPT ![w] = "read"]
    /\ UNCHANGED <<pc, cfg, convertVars, wdoc, wmarkdown, chunkVars, sortVars, docVars,
                   tableVars, cleanVars, extractVars, processVars>>

WorkerNext == \E w \in Workers : WorkerConvert(w) \/ WorkerReadChunks(w)

WorkerSpec == WorkerInit /\ [][WorkerNext]_vars

----------------------------------------------------------------------------
(* Properties of _chunk_text (checked under ChunkSpec) *)

Limit == cfg.chunk_size_kb * 1024
Chunked == pc = "chunked" /\ cfg.chunk_size_kb > 0

\* the chunk holds one line: no newline except, possibly, as its last character
IsSingleLine(c) == \A j \in 1..(Len(c) - 1) : c[j] # NL

\* C1: for every text and positive chunk_size_kb the concatenation of the
\* returned chunks is exactly the input text, also when a paragraph larger
\* than the limit is re-split by lines.
C1_ChunkingLossless == Chunked => Join(chunks) = text

IsUniformLine(s) ==
    /\ s # <<>>
    /\ \A i \in 1..Len(s) : s[i] # NL /\ Utf8Len(s[i]) = Utf8Len(s[1])

\* C3: a newline-free text of n characters of b bytes each is split into
\* consecutive chunks of floor(limit / b) characters, the remainder last
\* (300 four-byte characters at 1024 bytes: 256 characters, then 44).
C3_MultibyteChunking ==
    Chunked /\ IsUniformLine(text) =>
        LET per == Limit \div Utf8Len(text[1])
            cnt == (Len(text) + per - 1) \div per
        IN  /\ Len(chunks) = cnt
            /\ \A i \in 1..cnt :
                  chunks[i] = SubSeq(text, (i - 1) * per + 1,
                                     IF i * per < Len(text) THEN i * per ELSE Len(text))

----------------------------------------------------------------------------
(* Properties of _detect_headers_footers (checked under DetectSpec) *)

Pages == result.pages
Margin == cfg.header_footer_margin
BlockAt(pb) == Pages[pb[1]].text_blocks[pb[2]]
InHeader(pb) == InHeaderZone(BlockAt(pb), PageHeight(page_heights, pb[1]), Margin)
InFooter(pb) == InFooterZone(BlockAt(pb), PageHeight(page_heights, pb[1]), Margin)
\* the pages on which the key occurs in the header zone / in the footer zone
HeaderPages(key) ==
    { pb[1] : pb \in { c \in Candidates(Pages) : InHeader(c) /\ NormalizedKey(BlockAt(c)) = key } }
FooterPages(key) ==
    { pb[1] : pb \in { c \in Candidates(Pages) : InFooter(c) /\ NormalizedKey(BlockAt(c)) = key } }
AnyFlag ==
    \E p \in 1..Len(Pages) : \E b \in 1..Len(Pages[p].text_blocks) :
        Pages[p].text_blocks[b].is_header \/ Pages[p].text_blocks[b].is_footer

\* C4: in a document of at least 3 pages a key is flagged exactly where it
\* occurs in the header (footer) zone when it occurs there on at least half of
\* the pages, and is never flagged when it occurs there on fewer than half of
\* the pages, however many fragments carry it on one page.
C4_MajorityOfPages ==
    pc = "detected" /\ Len(Pages) >= 3 =>
        \A c \in Candidates(Pages) :
            LET key == NormalizedKey(BlockAt(c))
            IN  /\ InHeader(c) =>
                    (BlockAt(c).is_header <=> 2 * Cardinality(HeaderPages(key)) >= Len(Pages))
                /\ InFooter(c) =>
                    (BlockAt(c).is_footer <=> 2 * Cardinality(FooterPages(key)) >= Len(Pages))

\* C5: after the detection ran on a document of 0, 1 or 2 pages no fragment
\* has is_header or is_footer set.
C5_NoDetectionBelowThreePages ==
    pc = "detected" /\ Len(Pages) < 3 => ~AnyFlag

\* two pages that repeat a key in the header zone went through the detection
C5_Witness ==
    /\ pc = "detected"
    /\ Len(Pages) = 2
    /\ \E key \in { NormalizedKey(BlockAt(c)) : c \in Candidates(Pages) } :
          Cardinality(HeaderPages(key)) = 2

----------------------------------------------------------------------------
(* Properties of _sort_blocks_by_reading_order (checked under SortSpec) *)

Threshold == ColumnThresholdOf(page_width, cfg.column_threshold)
TopY(b) == b.bbox[2]
Labels(bs) == { bs[i].text : i \in 1..Len(bs) }
IsPermutation(out, in) == Len(out) = Len(in) /\ Labels(out) = Labels(in)
AscendingY(bs) == \A i, j \in 1..Len(bs) : i < j => TopY(bs[i]) <= TopY(bs[j])

\* C6: applying the resolver to its own output returns the same sequence.
C6_SortIdempotent == pc = "resorted" => resorted = sorted

\* the first application really reordered a page of several columns
C6_Witness ==
    /\ pc = "resorted"
    /\ sorted # blocks
    /\ Len(GroupColumns(blocks, page_width, cfg.column_threshold)) >= 2
    /\ \E i, j \in 1..Len(blocks) : i # j /\ blocks[i].bbox = blocks[j].bbox

\* all horizontal midpoints lie (strictly) within the threshold of each other
WithinThreshold(bs) ==
    \A i, j \in 1..Len(bs) :
        i # j => RatLess(RatAbsDiff(XPosition(bs[i]), XPosition(bs[j])), Threshold)

MidNums(bs) == { XPosition(bs[i])[1] : i \in 1..Len(bs) }
TwoGroups(bs) ==
    /\ Cardinality(MidNums(bs)) = 2
    /\ RatLess(Threshold, << Max(MidNums(bs)) - Min(MidNums(bs)), 2 >>)
IsLeft(b) == XPosition(b)[1] = Min(MidNums(blocks))
LeftThenRight(out) ==
    /\ \A i, j \in 1..Len(out) : IsLeft(out[i]) /\ ~IsLeft(out[j]) => i < j
    /\ \A i, j \in 1..Len(out) :
          i < j /\ (IsLeft(out[i]) <=> IsLeft(out[j])) => TopY(out[i]) <= TopY(out[j])

\* C8 as claimed: two groups more than the threshold apart come out left
\* group first, each group in ascending top-y order, for every input order.
C8_TwoColumnsAsClaimed ==
    pc = "sorted" /\ TwoGroups(blocks) =>
        IsPermutation(sorted, blocks) /\ LeftThenRight(sorted)

\* C8 amended: the same, provided the threshold column_threshold * page_width
\* is positive.
C8_TwoColumns ==
    pc = "sorted" /\ TwoGroups(blocks) /\ RatLess(<<0, 1>>, Threshold) =>
        IsPermutation(sorted, blocks) /\ LeftThenRight(sorted)

\* two fragments per column, given in an order that had to change
C8_Witness ==
    /\ pc = "sorted"
    /\ TwoGroups(blocks)
    /\ RatLess(<<0, 1>>, Threshold)
    /\ Cardinality({i \in 1..Len(blocks) : IsLeft(blocks[i])}) >= 2
    /\ Cardinality({i \in 1..Len(blocks) : ~IsLeft(blocks[i])}) >= 2
    /\ ~LeftThenRight(blocks)

----------------------------------------------------------------------------
(* Properties of convert (checked under ConvertSpec) *)

\* the transformation each text-cleaning toggle stands for, applied if and only
\* if the toggle is on
UnicodeStage(on, s) == IF on THEN ReplaceEach(NFC(s), LIGATURE_MAP) ELSE s
QuoteStage(on, s) == IF on THEN ReplaceEach(s, CHAR_REPLACEMENTS) ELSE s
DehyphenateStage(on, s) == IF on THEN _dehyphenate_text(s) ELSE s
WhitespaceStage(on, s) == IF on THEN _normalize_whitespace(s) ELSE s

\* the fragment is to be left out of the output
Omitted(b) ==
    \/ b.is_header /\ cfg.remove_headers
    \/ b.is_footer /\ cfg.remove_footers

\* the fragments of page p that are not to be left out, in order
Collected(p) ==
    LET keep(b) == ~Omitted(b)
    IN  SelectSeq(result.pages[p].text_blocks, keep)

\* C9: the text-cleaning toggles are independent.  Each of normalize_unicode,
\* normalize_quotes, dehyphenate and normalize_whitespace switches exactly its
\* own transformation, whatever the other toggles are, and a toggle that is off
\* passes the text through unchanged: every collected fragment text is the
\* fragment's text after the unicode stage (if normalize_unicode) and then the
\* quote stage (if normalize_quotes); the page text is the joined texts after
\* dehyphenation (if dehyphenate); the markdown is the joined lines after
\* whitespace normalization (if normalize_whitespace), stripped, plus "\n".
C9_TogglesIndependent ==
    pc = "converted" =>
        /\ \A p \in 1..Len(result.pages) :
              block_texts[p] =
                  [k \in 1..Len(Collected(p)) |->
                      QuoteStage(cfg.normalize_quotes,
                          UnicodeStage(cfg.normalize_unicode, Collected(p)[k].text))]
        /\ \A p \in 1..Len(result.pages) :
              PageText(block_texts[p], cfg) =
                  DehyphenateStage(cfg.dehyphenate, JoinWith(<< NL, NL >>, block_texts[p]))
        /\ markdown =
              Strip(WhitespaceStage(cfg.normalize_whitespace,
                        Join(PageLoop(<<>>, result.pages, 1, cfg)))) \o << NL >>

\* C10: a fragment's text is left out if and only if (is_header and
\* remove_headers) or (is_footer and remove_footers); the texts of all other
\* fragments are collected, normalized, in page and fragment order; a document
\* without tables whose fragments are all left out converts to the empty
\* markdown "\n".
C10_SkipPolicy ==
    pc = "converted" =>
        /\ Len(block_texts) = Len(result.pages)
        /\ \A p \in 1..Len(result.pages) :
              block_texts[p] =
                  [k \in 1..Len(Collected(p)) |->
                      _normalize_text(Collected(p)[k].text, cfg.normalize_unicode,
                                      cfg.normalize_quotes)]
        /\ (result.tables = 0 /\ \A p \in 1..Len(result.pages) : Collected(p) = <<>>)
              => markdown = << NL >>

\* a converted page on which a fragment is left out and a later fragment that is
\* marked as footer is collected because remove_footers is off
C10_Witness ==
    /\ pc = "converted"
    /\ \E p \in 1..Len(result.pages) :
          LET bs == result.pages[p].text_blocks
          IN  \E i, j \in 1..Len(bs) :
                 /\ i < j
                 /\ Omitted(bs[i])
                 /\ bs[j].is_footer /\ ~Omitted(bs[j])
                 /\ Len(block_texts[p]) = Len(bs) - 1

----------------------------------------------------------------------------
(* Properties of _render_table (checked under TableSpec) *)

\* the lines of the rendered table
RenderedLines == SplitNL(rendered)

\* the positions of the cell delimiters of a line: the pipes that are not escaped
Delimiters(line) ==
    Join([i \in 1..Len(line) |->
            IF line[i] = "|" /\ (i = 1 \/ line[i - 1] # "\\") THEN << i >> ELSE <<>>])

\* the cells of a line: the texts between consecutive delimiters, stripped
CellsOf(line) ==
    LET at == Delimiters(line)
    IN  [j \in 1..(Len(at) - 1) |-> Strip(SubSeq(line, at[j] + 1, at[j + 1] - 1))]

\* the cells the row must show in a table of n columns: its own cells, cleaned,
\* a null cell being empty, then empty cells up to n
PaddedRow(row, n) ==
    [j \in 1..n |-> IF j > Len(row) \/ row[j] = None THEN <<>> ELSE clean_cell(row[j])]

\* the widest row of the table
MaxRowLength == Max({Len(raw_table[r]) : r \in 1..Len(raw_table)})

\* C11 as claimed: for every table with at least one row, _render_table emits a header
\* line, a separator line and one line per remaining row (len(table) + 1 lines);
\* every line has exactly max-row-length cells; the header and the data lines
\* show the cells of their row, short rows (the first included) padded with
\* empty cells on the right and null cells rendered as empty.
C11_RaggedRowsPadded ==
    (pc = "rendered" /\ raw_table # <<>>) =>
        /\ Len(RenderedLines) = Len(raw_table) + 1
        /\ \A k \in 1..Len(RenderedLines) :
              Len(CellsOf(RenderedLines[k])) = MaxRowLength
        /\ CellsOf(RenderedLines[1]) = PaddedRow(raw_table[1], MaxRowLength)
        /\ \A r \in 2..Len(raw_table) :
              CellsOf(RenderedLines[r + 1]) = PaddedRow(raw_table[r], MaxRowLength)

\* C11 amended: the same for every table whose first row has at least one
\* cell; a table whose first row is empty is rendered as the empty string.
C11_RaggedRowsPaddedAfterFirstCell ==
    /\ (pc = "rendered" /\ raw_table # <<>> /\ raw_table[1] # <<>>) =>
          LET lines == RenderedLines
              n == MaxRowLength
          IN  /\ Len(lines) = Len(raw_table) + 1
              /\ \A k \in 1..Len(lines) :
                    LET cells == CellsOf(lines[k])
                    IN  /\ Len(cells) = n
                        /\ k # 2 => cells = PaddedRow(raw_table[IF k = 1 THEN 1 ELSE k - 1], n)
    /\ (pc = "rendered" /\ raw_table # <<>> /\ raw_table[1] = <<>>) => rendered = <<>>

\* a table whose first row is shorter than its second row and holds a null
\* cell was rendered
C11_Witness ==
    /\ pc = "rendered"
    /\ Len(raw_table) = 2
    /\ Len(raw_table[1]) = 1
    /\ raw_table[1][1] = None
    /\ Len(raw_table[2]) = 2
    /\ Len(RenderedLines) = 3

----------------------------------------------------------------------------
(* Properties of _dehyphenate_text (checked under DehyphenateSpec) *)

\* the whitespace after the line break that follows position i + 1
ContinuationSpace(s, i) == LeadingCount(SubSeq(s, i + 3, Len(s)), Spaces)

\* position i holds a word character followed by '-' and a newline, followed
\* (after optional whitespace) by a lowercase letter
BrokenAt(s, i) ==
    /\ i + 3 <= Len(s)
    /\ s[i] \in WordChars
    /\ s[i + 1] = "-"
    /\ s[i + 2] = NL
    /\ i + 3 + ContinuationSpace(s, i) <= Len(s)
    /\ s[i + 3 + ContinuationSpace(s, i)] \in LowerAZ

\* the positions of the hyphens, line breaks and leading whitespace of all the
\* places where a word is broken
BrokenPositions(s) ==
    UNION { (i + 1)..(i + 2 + ContinuationSpace(s, i)) : i \in {j \in 1..Len(s) : BrokenAt(s, j)} }

\* a fragment of one line
OneLine(s) == \A i \in 1..Len(s) : s[i] # NL

\* C12: _dehyphenate_text deletes the hyphen, the line break and the
\* continuation's leading whitespace exactly where a word is broken and changes
\* nothing else; a text without a newline is returned unchanged; two one-line
\* fragments joined by a blank line, the first ending in word character + '-'
\* and the second starting with a lowercase letter, are rejoined into one word.
C12_DehyphenationRule ==
    pc = "dehyphenated" =>
        /\ clean_text = KeepAt(text, (1..Len(text)) \ BrokenPositions(text))
        /\ OneLine(text) => clean_text = text
        /\ \A k \in 3..(Len(text) - 2) :
              LET first == SubSeq(text, 1, k - 1)
                  second == SubSeq(text, k + 2, Len(text))
              IN  (/\ text[k] = NL /\ text[k + 1] = NL
                   /\ OneLine(first) /\ OneLine(second)
                   /\ first[k - 2] \in WordChars /\ first[k - 1] = "-"
                   /\ second[1] \in LowerAZ)
                  => clean_text = SubSeq(first, 1, k - 2) \o second

----------------------------------------------------------------------------
(* Properties of _normalize_whitespace (checked under WhitespaceSpec) *)

\* s holds three consecutive newlines
ThreeNewlines(s) ==
    \E i \in 1..(Len(s) - 2) : s[i] = NL /\ s[i + 1] = NL /\ s[i + 2] = NL

\* some line of s ends in a space or a tab
TrailingBlank(s) ==
    \E k \in 1..Len(SplitNL(s)) :
        LET line == SplitNL(s)[k]
        IN  line # <<>> /\ line[Len(line)] \in Blanks

\* C13: for every input text, the output of _normalize_whitespace contains no
\* run of three or more consecutive newlines and no line that ends in a space
\* or tab, and applying _normalize_whitespace a second time changes nothing.
C13_WhitespacePostcondition ==
    /\ pc \in {"normalized", "renormalized"} =>
          ~ThreeNewlines(clean_text) /\ ~TrailingBlank(clean_text)
    /\ pc = "renormalized" => reclean_text = clean_text

----------------------------------------------------------------------------
(* Properties of the list-marker toggle (checked under ListSpec) *)

\* the lines of the Markdown that are not empty, in order
MarkdownLines == LET ls == SplitLines(markdown)
                 IN  KeepAt(ls, {k \in 1..Len(ls) : ls[k] # <<>>})

\* the text lines of the page converted, in order (every fragment is one line)
ListLines == [k \in 1..Len(result.pages[1].text_blocks) |-> result.pages[1].text_blocks[k].text]

\* the item of a line that begins with a bullet glyph: the text after the glyph
\* and the whitespace that follows it
ItemOf(line) == SubSeq(line, 2 + LeadingCount(Tail(line), Spaces), Len(line))

\* C14: a text line that begins with a bullet glyph (U+2022 or U+00B7) is
\* emitted with the marker removed when 'lists' is not in preserve_formatting
\* and with the Markdown marker '- ' when it is, for every setting of the
\* text-cleaning toggles.
C14_ListMarkerToggle ==
    pc = "converted" =>
        /\ Len(MarkdownLines) = Len(ListLines)
        /\ \A k \in 1..Len(ListLines) :
              ListLines[k][1] \in Bullets =>
                  MarkdownLines[k] = IF cfg.preserve_lists
                                     THEN <<"-", " ">> \o ItemOf(ListLines[k])
                                     ELSE ItemOf(ListLines[k])

----------------------------------------------------------------------------
(* Properties of the heading classification (checked under HeadingSpec) *)

\* the line matches one of the patterns
MatchesSome(line, patterns) == \E k \in 1..Len(patterns) : PatternSearch(patterns[k], line)

\* the text lines of the page converted, in order (every fragment is one line
\* that the formatting rules leave as it is)
HeadingLines == [k \in 1..Len(result.pages[1].text_blocks) |-> result.pages[1].text_blocks[k].text]

\* C15: a line matching any chapter pattern is emitted as '# <line>' even if
\* it also matches a section pattern, a line matching only section patterns as
\* '## <line>', and a line matching neither as a plain body line.
C15_HeadingPrecedence ==
    pc = "converted" =>
        /\ Len(MarkdownLines) = Len(HeadingLines)
        /\ \A k \in 1..Len(HeadingLines) :
              LET line == HeadingLines[k]
              IN  MarkdownLines[k] =
                      IF MatchesSome(line, cfg.chapter_patterns) THEN <<"#", " ">> \o line
                      ELSE IF MatchesSome(line, cfg.section_patterns) THEN <<"#", "#", " ">> \o line
                      ELSE line

\* a line that matches a chapter pattern and a section pattern has been emitted
\* as a chapter heading, and a line matching only a section pattern as a
\* section heading
C15_Witness ==
    /\ pc = "converted"
    /\ \E k \in 1..Len(HeadingLines) :
          /\ MatchesSome(HeadingLines[k], cfg.chapter_patterns)
          /\ MatchesSome(HeadingLines[k], cfg.section_patterns)
          /\ MarkdownLines[k] = <<"#", " ">> \o HeadingLines[k]
    /\ \E k \in 1..Len(HeadingLines) :
          /\ ~MatchesSome(HeadingLines[k], cfg.chapter_patterns)
          /\ MatchesSome(HeadingLines[k], cfg.section_patterns)
          /\ MarkdownLines[k] = <<"#", "#", " ">> \o HeadingLines[k]

----------------------------------------------------------------------------
(* Properties of extract_pdf (checked under ExtractSpec) *)

\* the cache holds the entry written for the content c
Cached(c) ==
    \E k \in DOMAIN cache : cache[k] = CacheEntry(process_pdf(c, cfg))

\* once the cache entry of a content is written, a call of extract_pdf on a
\* file with that content returns the cached data, and process_pdf is not
\* invoked for that content
CacheHit(c) ==
    Cached(c) =>
        /\ calls'[c] = calls[c]
        /\ (ncalls' # ncalls /\ files[last_path'] = c /\ validate_pdf(last_path'))
               => returned' = process_pdf(c, cfg)

----------------------------------------------------------------------------
(* Properties of process_pdf (checked under ProcessSpec) *)

\* some fragment of the result carries is_header or is_footer
SomeFlag ==
    \E p \in 1..Len(result.pages) : \E b \in 1..Len(result.pages[p].text_blocks) :
        result.pages[p].text_blocks[b].is_header \/ result.pages[p].text_blocks[b].is_footer

\* C17: header/footer detection runs at most once per document, only when
\* detect_headers_footers is enabled and only after every page of the document
\* has had its fragments extracted and been appended to the result; no
\* fragment carries is_header / is_footer before that point; and if page
\* extraction aborts with an error detection is not run at all.
C17_PhaseOrdering ==
    /\ detections <= 1
    /\ detections = 1 =>
          /\ cfg.detect_headers_footers
          /\ Len(result.pages) = Len(doc.pages)
          /\ \A k \in 1..Len(doc.pages) :
                Len(result.pages[k].text_blocks) = Len(doc.pages[k].blocks)
    /\ detections = 0 => ~SomeFlag
    /\ doc.error # NoError => detections = 0

\* the detection has run after three pages were appended and has marked a
\* running title
C17_Witness ==
    /\ pc = "returned"
    /\ detections = 1
    /\ Len(result.pages) = 3
    /\ SomeFlag

\* the stepwise run and the single call agree on the result returned
ProcessAgrees == pc = "returned" => result = process_pdf(doc, cfg)

----------------------------------------------------------------------------
(* Properties of fragments without bounding box (checked under BoxSpec) *)

\* the fragments of a list that have a bounding box, in order
Boxed(bs) == KeepAt(bs, {i \in 1..Len(bs) : bs[i].bbox # <<>>})

\* the pages with the fragments without bounding box left out
BoxedPages(pages) ==
    [p \in 1..Len(pages) |-> [pages[p] EXCEPT !.text_blocks = Boxed(@)]]

\* C18: a fragment with no bounding box is excluded from reading-order
\* resolution and from the header/footer margin logic without raising, and the
\* remaining fragments of the page are processed normally: they come out in
\* the reading order they have without it, and they are flagged as they are
\* without it, the fragment itself staying unflagged.
C18_MissingBoxTolerated ==
    /\ pc # "raised"
    /\ pc = "sorted" =>
          Boxed(sorted) = _sort_blocks_by_reading_order(Boxed(blocks), page_width,
                                                        cfg.column_threshold)
    /\ pc = "detected" =>
          /\ BoxedPages(result.pages) =
                 _detect_headers_footers(
                     BoxedPages([p \in 1..Len(result.pages) |->
                                    [result.pages[p] EXCEPT !.text_blocks = blocks]]),
                     page_heights, cfg.header_footer_margin)
          /\ \A p \in 1..Len(result.pages) : \A b \in 1..Len(blocks) :
                blocks[b].bbox = <<>> => result.pages[p].text_blocks[b] = blocks[b]

----------------------------------------------------------------------------
(* Properties of concurrent processing (checked under WorkerSpec) *)

\* C19: when distinct documents are processed in any interleaving by the same
\* extractor, each one's returned markdown and the chunk list read from
\* last_chunks after its convert call are the same as if it had been processed
\* alone.
C19_NoLockingNeeded ==
    \A w \in Workers :
        /\ wpc[w] \in {"converted", "read"} => wmarkdown[w] = convert(wdoc[w], cfg).markdown
        /\ wpc[w] = "read" => wchunks[w] = convert(wdoc[w], cfg).last_chunks

\* the half of C19 about the returned markdown
C19_MarkdownAlone ==
    \A w \in Workers :
        wpc[w] \in {"converted", "read"} => wmarkdown[w] = convert(wdoc[w], cfg).markdown

----------------------------------------------------------------------------
(* Properties of a repeated detection (checked under DetectSpec) *)

\* the flags of every fragment of a result
FlagsOf(res) ==
    [p \in 1..Len(res.pages) |->
        [b \in 1..Len(res.pages[p].text_blocks) |->
            << res.pages[p].text_blocks[b].is_header, res.pages[p].text_blocks[b].is_footer >>]]

\* C20: running _detect_headers_footers a second time on the document it has
\* already flagged, with the same page heights and margin, leaves every
\* fragment's is_header and is_footer unchanged.
C20_DetectIdempotent ==
    [][(pc = "detected" /\ pc' = "redetected") => FlagsOf(result') = FlagsOf(result)]_vars

\* the detection has run twice on a document in which it flagged a fragment
C20_Witness ==
    /\ pc = "redetected"
    /\ \E p \in 1..Len(result.pages) : \E b \in 1..Len(result.pages[p].text_blocks) :
          \/ result.pages[p].text_blocks[b].is_header
          \/ result.pages[p].text_blocks[b].is_footer

----------------------------------------------------------------------------
(* Properties of _chunk_text without a limit (checked under ChunkSpec) *)

\* C21: with chunk_size_kb <= 0, _chunk_text returns exactly one chunk, equal
\* to the input text, for every text, the empty text included.
C21_SingleChunkWithoutLimit ==
    pc = "chunked" /\ cfg.chunk_size_kb <= 0 => chunks = << text >>

\* a text of several paragraphs, longer than a kilobyte, was chunked with a
\* negative chunk_size_kb
C21_Witness ==
    /\ pc = "chunked"
    /\ cfg.chunk_size_kb < 0
    /\ ByteSize(text) > 1024
    /\ Len(SplitParas(text)) > 1
    /\ Len(chunks) = 1

----------------------------------------------------------------------------
(* Properties of the column clustering (checked under SortSpec) *)

\* the columns the fragments of the page were placed in, each in ascending
\* midpoint order
Columns == GroupColumns(blocks, page_width, cfg.column_threshold)

\* the midpoints of two fragments differ by less than the threshold
Near(a, b) == RatLess(RatAbsDiff(XPosition(a), XPosition(b)), Threshold)

\* C22 as claimed: any two fragments placed in the same column have horizontal
\* midpoints that differ by less than column_threshold * page_width, whatever
\* chain of intermediate fragments lies between them.
C22_NoDriftMerge ==
    pc = "sorted" =>
        LET cols == Columns
        IN  \A c \in 1..Len(cols) : \A i, j \in 1..Len(cols[c]) :
                i # j => Near(cols[c][i], cols[c][j])

\* C22 amended: any two fragments placed in the same column that are
\* neighbours in ascending midpoint order have midpoints that differ by less
\* than column_threshold * page_width.
C22_NeighboursNear ==
    pc = "sorted" =>
        LET cols == Columns
        IN  \A c \in 1..Len(cols) : \A i \in 1..(Len(cols[c]) - 1) :
                Near(cols[c][i], cols[c][i + 1])

\* a column of three different midpoints next to a second column
C22_Witness ==
    /\ pc = "sorted"
    /\ LET cols == Columns
       IN  /\ Len(cols) = 2
           /\ \E c \in 1..Len(cols) :
                 Cardinality({ XPosition(cols[c][i]) : i \in 1..Len(cols[c]) }) = 3

\* the state of the grouping loop after the first k fragments, in ascending
\* midpoint order, have been scanned
Scanned(sorted_by_x, k) ==
    ColumnLoop([columns |-> <<>>, current_col |-> <<>>, current_x |-> <<>>],
               SubSeq(sorted_by_x, 1, k), 1, Threshold)

\* the arithmetic mean of the midpoints of a non-empty list of fragments
MeanMidpoint(col) ==
    << SumSeq([i \in 1..Len(col) |-> col[i].bbox[1] + col[i].bbox[3]]), 2 * Len(col) >>

\* C23: after k fragments have been added to the current column, the value the
\* next fragment's midpoint is compared against equals the arithmetic mean of
\* the midpoints of those k fragments.
C23_RunningMean ==
    pc = "sorted" =>
        LET by_x == SortedByX(blocks)
        IN  \A k \in 1..Len(blocks) :
                LET st == Scanned(by_x, k)
                IN  RatEq(st.current_x, MeanMidpoint(st.current_col))

\* the k-th fragment in ascending midpoint order opened a new column
StartsColumn(by_x, k) == k > 1 /\ Len(Scanned(by_x, k).current_col) = 1

\* the distance of the k-th fragment's midpoint from the reference value the
\* loop keeps for the current column when the fragment is scanned
Distance(by_x, k) == RatAbsDiff(XPosition(by_x[k]), Scanned(by_x, k - 1).current_x)

\* C24 as claimed: scanning in ascending midpoint order, a fragment starts a
\* new column exactly when its midpoint differs from the current column's average (the
\* reference value of the loop) by more than column_threshold * page_width; a
\* difference equal to the threshold keeps it in the current column.
C24_SplitCondition ==
    pc = "sorted" =>
        LET by_x == SortedByX(blocks)
        IN  \A k \in 2..Len(blocks) :
                StartsColumn(by_x, k) <=> RatLess(Threshold, Distance(by_x, k))

\* C24 amended: a fragment starts a new column exactly when its midpoint
\* differs from the reference value of the current column by at least
\* column_threshold * page_width; a difference equal to the threshold starts
\* a new column.
C24_SplitAtThreshold ==
    pc = "sorted" =>
        LET by_x == SortedByX(blocks)
        IN  \A k \in 2..Len(blocks) :
                StartsColumn(by_x, k) <=> ~RatLess(Distance(by_x, k), Threshold)

\* on a page of positive width a fragment exactly the threshold away from the
\* reference opened a new column, and another joined the current one
C24_Witness ==
    /\ pc = "sorted"
    /\ RatLess(<<0, 1>>, Threshold)
    /\ LET by_x == SortedByX(blocks)
       IN  /\ \E k \in 2..Len(blocks) :
                 RatEq(Distance(by_x, k), Threshold) /\ StartsColumn(by_x, k)
           /\ \E k \in 2..Len(blocks) : ~StartsColumn(by_x, k)

----------------------------------------------------------------------------
(* Properties of the aggregate counters (checked under ProcessSpec) *)

\* the counters of a result equal what its pages hold
CountersMatch(res) ==
    /\ res.text_blocks = SumSeq([k \in 1..Len(res.pages) |-> Len(res.pages[k].text_blocks)])
    /\ res.tables = SumSeq([k \in 1..Len(res.pages) |-> Len(res.pages[k].tables)])
    /\ res.total_pages = Len(res.pages)

\* C25: whenever process_pdf returns, also after a parsing error part-way
\* through a page, text_blocks equals the number of fragments in the pages of
\* the result, tables the number of their tables, and total_pages the number
\* of pages.
C25_CountersMatchPages == pc = "returned" => CountersMatch(result)

\* the counters match whenever no call raised
CountersMatchWithoutError ==
    pc = "returned" /\ doc.error \in {NoError, <<0, "open">>} => CountersMatch(result)

----------------------------------------------------------------------------
(* Properties of the Markdown outputs (checked under ExtractSpec) *)

\* the last call of extract_pdf returned a result dictionary
ReturnedResult == pc = "extracted" /\ returned \notin {ReturnedNone, Raised}

\* C26: after any sequence of extract_pdf calls, a PDF for which extract_pdf
\* returned a result (which extract_all lists in its results and index) has
\* its Markdown file <stem>.md written, also when the result came from the
\* cache or the cache was written by a run whose conversion failed.
C26_SuccessImpliesOutput == ReturnedResult => last_path.stem \in DOMAIN outputs

\* a result returned by the call that processed the PDF has its Markdown file
OutputWhenProcessed ==
    [][\A c \in Pdfs : ncalls' # ncalls /\ calls'[c] # calls[c] /\ returned' # ReturnedNone
                           => last_path'.stem \in DOMAIN outputs']_vars

----------------------------------------------------------------------------
(* Properties of the flags _detect_headers_footers sets (checked under      *)
(* BoxSpec)                                                                 *)

\* the fragment has a bounding box whose top edge is above the line
\* page_height * margin
TopInMargin(block) ==
    /\ block.bbox # <<>>
    /\ block.bbox[2] * cfg.header_footer_margin[2]
           < DetectPageHeight * cfg.header_footer_margin[1]

\* the fragment has a bounding box whose bottom edge is below the line
\* page_height * (1 - margin)
BottomInMargin(block) ==
    /\ block.bbox # <<>>
    /\ block.bbox[4] * cfg.header_footer_margin[2]
           > DetectPageHeight * (cfg.header_footer_margin[2] - cfg.header_footer_margin[1])

\* the fragments of the pages, as a set of positions <<page, block>>
Positions(pages) ==
    UNION { { <<p, b>> : b \in 1..Len(pages[p].text_blocks) } : p \in 1..Len(pages) }

\* the number of fragments in the zone whose key is the key of the fragment
ZoneCount(pages, block, InZone(_)) ==
    Cardinality({ pb \in Positions(pages) :
        /\ InZone(pages[pb[1]].text_blocks[pb[2]])
        /\ NormalizedKey(pages[pb[1]].text_blocks[pb[2]]) = NormalizedKey(block) })

\* the flag of a fragment is kept when set, and newly set only for a fragment
\* in the zone whose key has three characters or more and was counted in the
\* zone on half of the pages or more
FlagSound(pages, old, new, InZone(_), flag(_)) ==
    /\ flag(old) => flag(new)
    /\ flag(new) /\ ~flag(old) =>
          /\ InZone(old)
          /\ Len(NormalizedKey(old)) >= 3
          /\ 2 * ZoneCount(pages, old, InZone) >= Len(pages)

IsHeader(block) == block.is_header
IsFooter(block) == block.is_footer

----------------------------------------------------------------------------
(* Properties of the reading order as a rearrangement (checked under        *)
(* SortSpec)                                                                *)

\* the position of the i-th input fragment in the output (the fragments of a
\* page differ in their label)
OutputPosition(i) == CHOOSE k \in 1..Len(sorted) : sorted[k] = blocks[i]

\* every input fragment is in the output exactly once, and nothing else is
ExactlyTheInput ==
    /\ Len(sorted) = Len(blocks)
    /\ \A i \in 1..Len(blocks) :
          Cardinality({ k \in 1..Len(sorted) : sorted[k] = blocks[i] }) = 1

\* C28: the output of _sort_blocks_by_reading_order contains exactly the input
\* fragments, each once, and fragments with equal midpoint and equal top y
\* keep their input relative order.
C28_StablePermutation ==
    pc = "sorted" =>
        /\ ExactlyTheInput
        /\ \A i, j \in 1..Len(blocks) :
              /\ i < j
              /\ RatEq(XPosition(blocks[i]), XPosition(blocks[j]))
              /\ TopY(blocks[i]) = TopY(blocks[j])
              => OutputPosition(i) < OutputPosition(j)

\* a page of two columns was reordered, and two of its fragments share
\* midpoint and top y
C28_Witness ==
    /\ pc = "sorted"
    /\ sorted # blocks
    /\ Len(Columns) >= 2
    /\ RatLess(<<0, 1>>, Threshold)
    /\ \E i, j \in 1..Len(blocks) : i < j /\ blocks[i].bbox = blocks[j].bbox

----------------------------------------------------------------------------
(* Properties of the reading order on a page of width 0 (checked under      *)
(* SortSpec)                                                                *)

\* the midpoints of the output never decrease
AscendingMidpoints(out) ==
    \A i, j \in 1..Len(out) : i < j => ~RatLess(XPosition(out[j]), XPosition(out[i]))

\* C29: with page_width = 0 (threshold 0) every fragment becomes its own
\* column, so the output is the input stably sorted by midpoint ascending, with
\* no reordering by top y, and no error is raised.
C29_ZeroWidthPage ==
    page_width = 0 =>
        /\ pc # "raised"
        /\ pc = "sorted" =>
              /\ Len(Columns) = Len(blocks)
              /\ ExactlyTheInput
              /\ AscendingMidpoints(sorted)
              /\ \A i, j \in 1..Len(blocks) :
                    i < j /\ RatEq(XPosition(blocks[i]), XPosition(blocks[j]))
                    => OutputPosition(i) < OutputPosition(j)

\* on a page of width 0, two fragments of equal midpoint were given bottom
\* first and came out bottom first, after a fragment further left
C29_Witness ==
    /\ pc = "sorted"
    /\ page_width = 0
    /\ sorted # blocks
    /\ \E i, j \in 1..Len(sorted) :
          /\ i < j
          /\ RatEq(XPosition(sorted[i]), XPosition(sorted[j]))
          /\ TopY(sorted[i]) > TopY(sorted[j])

----------------------------------------------------------------------------
(* Properties of the column widths of a rendered table (checked under       *)
(* TableSpec)                                                               *)

\* a table _render_table renders: it has a first row, and that row has a cell
IsRendered == pc = "rendered" /\ raw_table # <<>> /\ raw_table[1] # <<>>

\* the length of the longest cleaned cell text of column i, over the rows that
\* have such a cell
LongestCell(i) ==
    Max({0} \cup { Len(clean_cell(raw_table[r][i])) :
                     r \in { q \in 1..Len(raw_table) : i <= Len(raw_table[q]) } })

\* the width column i must have
ClaimedWidth(i) == LET longest == LongestCell(i) IN IF longest > 3 THEN longest ELSE 3

\* the widths the columns of a table of n columns must have, as a tuple
ClaimedWidths(n) == SubSeq([i \in 1..n |-> ClaimedWidth(i)], 1, n)

\* the text of column i of a line, between "| " and " |"
ColumnText(line, i) ==
    SubSeq(line, Delimiters(line)[i] + 2, Delimiters(line)[i + 1] - 2)

\* C30: in the output of _render_table the width of column i is max(3, longest
\* cleaned cell text of column i over all rows); the separator row has exactly
\* that many dashes per column, and the header, the separator and the data
\* rows all have the same total length.
C30_ColumnWidths ==
    IsRendered =>
        LET lines == RenderedLines
            n == MaxRowLength
            width == ClaimedWidths(n)
        IN  /\ \A k \in 1..Len(lines) :
                  LET at == Delimiters(lines[k])
                  IN  /\ Len(at) = n + 1
                      /\ \A i \in 1..n : at[i + 1] - at[i] - 3 = width[i]
                      /\ Len(lines[k]) = Len(lines[1])
            /\ \A i \in 1..n : ColumnText(lines[2], i) = Rep("-", width[i])

\* a ragged table with a column as wide as its longest cell, wider than the
\* minimum, and a column of null cells at the minimum width
C30_Witness ==
    /\ IsRendered
    /\ Len(raw_table) = 2
    /\ Len(raw_table[1]) # Len(raw_table[2])
    /\ \E i \in 1..MaxRowLength : LongestCell(i) > 3
    /\ \E i \in 1..MaxRowLength : LongestCell(i) = 0

====
